---- MODULE Spec2Model ----
(***************************************************************************)
(* Customer-support agent demo: the identity-scoped tool layer.            *)
(*                                                                         *)
(* The model covers the database gateway as the tools use it (statements   *)
(* sent over a client, each of which may fail), the three order tools, the *)
(* two semantic-search tools, the shipping tool and the ingestion job,     *)
(* and around them the orchestrator's constructor, the terminal runner     *)
(* and the UI's lazily built agent.                                        *)
(* A tool invocation is one action; its inputs and the failures of the     *)
(* statements it sends are chosen with \E.  `last` records what the        *)
(* invocation did: the statements it sent, the clients it opened, and what *)
(* it returned or raised.                                                  *)
(***************************************************************************)
EXTENDS Integers, Sequences, FiniteSets, TLC

VARIABLES
    Orders,      \* Agent_Data.Orders: OrderID -> [CustomerID, OrderDate, ProductID]
    DocChunks,   \* Agent_Data.DocChunks: <<DocID, ChunkIndex>> -> row
    ProductEmbedding, \* Agent_Data.Products.Embedding: None, or the config that built it
    docsDir,     \* the files under DOCS_DIR
    env,         \* the process environment (os.getenv)
    toolDb,      \* tool name -> the client the tool holds in self._db (None or Some(id))
    last,        \* record of the last tool invocation
    cli,         \* a run of the terminal runner (cli/run.py)
    ui           \* the UI process: the module-level _AGENT and its request threads

vars == <<Orders, DocChunks, ProductEmbedding, docsDir, env, toolDb, last, cli, ui>>

(* ------------------------------ bounds -------------------------------- *)

MaxOrders == 4      \* OrderIDs 1..MaxOrders exist; MaxOrders + 1 never does
MaxLimit == 2       \* explicit limit arguments range over -1..MaxLimit
MaxChunks == 2      \* rows of DocChunks the search tools may find
MaxText == 5        \* longest text handed to make_chunks
MaxSize == 3        \* largest chunk size handed to make_chunks
MaxInputs == 3      \* calls of input() in one run of the terminal runner
MaxUiCalls == 2     \* calls of _agent() one request thread makes
MaxEvents == 3      \* submit and sample-prompt events in one chat session

(* --------------------------- python values ---------------------------- *)

None == <<>>
Some(v) == <<v>>
Max(a, b) == IF a >= b THEN a ELSE b
Min(a, b) == IF a <= b THEN a ELSE b

(* ------------------------------ tables -------------------------------- *)

CustomerIDs == {1, 2}
Emails == {"alice@example.com", "bob@example.com", "eve@example.com"}

\* Agent_Data.Customers: eve has no row.
Customers ==
    { [CustomerID |-> 1, Email |-> "alice@example.com"],
      [CustomerID |-> 2, Email |-> "bob@example.com"] }

OrderIDs == 1..MaxOrders
Dates == {1, 2}

\* Order dates are not in OrderID order and repeat.
OrderDateOf(oid) == 1 + (oid % 2)

\* Agent_Data.Products and Agent_Data.Shipments (read-only here).
Products == { [ProductID |-> 1, Price |-> 10], [ProductID |-> 2, Price |-> 25] }
ProductOfOrder(oid) == 1 + (oid % 2)
Shipments == { [OrderID |-> 1, TrackingCode |-> "DHL7788"] }

\* The Orders tables considered: every assignment of the orders to the two
\* customers.
OrderTables ==
    { [oid \in OrderIDs |->
          [CustomerID |-> owner[oid], OrderDate |-> OrderDateOf(oid)]] :
        owner \in [OrderIDs -> CustomerIDs] }

(* -------------------------- database gateway -------------------------- *)

\* A client is named after the object that constructed it: "agent" for the
\* one CustomerSupportAgent.__init__ injects, the tool's own name for one a
\* tool constructs.  A tool holds at most the latest client it constructed
\* and never hands it to another tool, so two tools hold the same IRISClient
\* exactly when the names are equal.
AgentClient == "agent"

\* What one forward() call of `self` has done so far: the client held in
\* self._db, the number of clients it constructed, the statements it sent,
\* the exception raised (None while running normally).
NewCall(self, db) ==
    [self |-> self, db |-> db, opened |-> 0, stmts |-> <<>>, err |-> None]

\* IRISClient(): iris.connect either returns a connection or raises.
IRISClient(c, fail) ==
    IF c.err # None THEN c
    ELSE IF fail THEN [c EXCEPT !.err = Some("ConnectionError")]
    ELSE [c EXCEPT !.db = Some(c.self), !.opened = c.opened + 1]

\* The text of a statement as the pieces an f-string assembles: literal SQL
\* and values formatted into the text.  A '?' placeholder is a literal.
Lit(s) == [lit |-> s]
Inlined(v) == [inlined |-> v]
Placeholder == Lit("?")

\* cursor.execute(sql, tuple(params or ())) on the held client; a failure of
\* the connection raises out of the gateway.  `sql` names the statement,
\* `text` and `params` are what the cursor receives.
Send(c, sql, text, params, table, fail) ==
    IF c.err # None THEN c
    ELSE LET sent == Append(c.stmts,
                 [sql |-> sql, text |-> text, params |-> params,
                  table |-> table, client |-> c.db, ok |-> ~fail])
         IN IF fail
            THEN [c EXCEPT !.stmts = sent, !.err = Some("ConnectionError")]
            ELSE [c EXCEPT !.stmts = sent]

\* query / query_one / execute with a statement whose text is a constant of
\* the source; its text is its name and its parameters are not recorded.
Execute(c, sql, table, fail) == Send(c, sql, <<Lit(sql)>>, <<>>, table, fail)

\* Tool.setup: lazy construction when no client was injected.
setup(c, fail) ==
    IF c.db = None THEN IRISClient(c, fail) ELSE c

\* _ensure_connected: SELECT 1; on any exception replace self._db by a new
\* client.  The exception of the health check itself is swallowed; one raised
\* by the constructor is not.
ensure_connectedSwallowAll(c, hcFail, connFail) ==
    IF c.err # None THEN c
    ELSE LET h == Execute(c, "SELECT 1 AS one", "", hcFail)
         IN IF h.err # None
            THEN [IRISClient([h EXCEPT !.err = None], connFail) EXCEPT !.err = None]
            ELSE h

ensure_connectedRetry(c, hcFail, connFail) ==
    IF c.err # None THEN c
    ELSE LET h == Execute(c, "SELECT 1 AS one", "", hcFail)
         IN IF h.err # None
            THEN Execute(IRISClient([h EXCEPT !.err = None], connFail),
                         "SELECT 1 AS one", "", FALSE)
            ELSE h

ensure_connected(c, hcFail, connFail) ==
    IF c.err # None THEN c
    ELSE LET h == Execute(c, "SELECT 1 AS one", "", hcFail)
         IN IF h.err # None
            THEN IRISClient([h EXCEPT !.err = None], connFail)
            ELSE h

\* The failures one invocation may meet, one flag per I/O step: the
\* constructor in setup, the health check, the constructor after a failed
\* health check, the email lookup, the tool's own statement.  A step after
\* the one that raises is never reached, so its flag is left FALSE.
Faults ==
    { f \in [setup : BOOLEAN, hc : BOOLEAN, reconnect : BOOLEAN,
             lookup : BOOLEAN, query : BOOLEAN] :
        /\ f.setup => ~(f.hc \/ f.reconnect \/ f.lookup \/ f.query)
        /\ f.reconnect => (f.hc /\ ~f.lookup /\ ~f.query)
        /\ f.lookup => ~f.query }

\* setup constructs a client only when none was injected.
FaultsFor(db) == { f \in Faults : f.setup => db = None }

Raised(c) ==
    [db |-> c.db, opened |-> c.opened, stmts |-> c.stmts,
     outcome |-> "raised", error |-> c.err, result |-> None]

Returned(c, payload) ==
    [db |-> c.db, opened |-> c.opened, stmts |-> c.stmts,
     outcome |-> "returned", error |-> None, result |-> payload]

(* ------------------------ identity resolution ------------------------- *)

\* SELECT CustomerID FROM Agent_Data.Customers WHERE Email = ?  (first row)
CustomerIdByEmail(email) ==
    LET rows == {r \in Customers : r.Email = email}
    IN IF rows = {} THEN None
       ELSE Some((CHOOSE r \in rows : TRUE).CustomerID)

get_customer_idFallback(c, email, fail) ==
    LET q == Execute(c, "SELECT CustomerID FROM Customers WHERE Email = ?",
                     "Customers", fail)
    IN [ctx |-> q,
        cid |-> IF q.err # None THEN None
                ELSE IF CustomerIdByEmail(email) = None THEN Some(1)
                ELSE CustomerIdByEmail(email)]

get_customer_id(c, email, fail) ==
    LET q == Execute(c, "SELECT CustomerID FROM Customers WHERE Email = ?",
                     "Customers", fail)
    IN [ctx |-> q,
        cid |-> IF q.err # None THEN None ELSE CustomerIdByEmail(email)]

(* ------------------------- order statements --------------------------- *)

\* FROM Orders o JOIN Products p ON p.ProductID = o.ProductID
\*               LEFT JOIN Shipments s ON s.OrderID = o.OrderID
\* restricted to the orders in `oids`; the columns of the SELECT list.
JoinedRows(orders, oids) ==
    UNION { UNION { LET ships == {s \in Shipments : s.OrderID = oid}
                        codes == IF ships = {} THEN {None}
                                 ELSE {Some(s.TrackingCode) : s \in ships}
                    IN { [OrderID |-> oid,
                          OrderDate |-> orders[oid].OrderDate,
                          ProductID |-> p.ProductID,
                          Price |-> p.Price,
                          TrackingCode |-> t] : t \in codes }
                  : p \in {q \in Products : q.ProductID = ProductOfOrder(oid)} }
          : oid \in oids }

RECURSIVE Perms(_)
Perms(S) ==
    IF S = {} THEN { <<>> }
    ELSE UNION { { <<x>> \o t : t \in Perms(S \ {x}) } : x \in S }

\* ORDER BY o.OrderDate DESC: every arrangement of the rows with
\* non-increasing dates (rows of equal date come in any order).
RECURSIVE OrderByDateDesc(_)
OrderByDateDesc(rows) ==
    IF rows = {} THEN { <<>> }
    ELSE LET top == CHOOSE d \in {r.OrderDate : r \in rows} :
                        \A r \in rows : r.OrderDate <= d
             first == {r \in rows : r.OrderDate = top}
         IN { h \o t : h \in Perms(first), t \in OrderByDateDesc(rows \ first) }

\* LIMIT n
Limit(s, n) == SubSeq(s, 1, Min(n, Len(s)))

\* WHERE o.CustomerID = ? ORDER BY o.OrderDate DESC LIMIT n
SelectLastOrdersNoLimit(orders, cid, n) ==
    OrderByDateDesc(JoinedRows(orders,
        {oid \in DOMAIN orders : orders[oid].CustomerID = cid}))

SelectLastOrders(orders, cid, n) ==
    { Limit(s, n) : s \in OrderByDateDesc(JoinedRows(orders,
          {oid \in DOMAIN orders : orders[oid].CustomerID = cid})) }

\* WHERE o.CustomerID = ? AND o.OrderID = ?   (query_one: first row or None)
SelectOrderByIdAnyCustomer(orders, cid, order_id) ==
    LET rows == JoinedRows(orders, {oid \in DOMAIN orders : oid = order_id})
    IN IF rows = {} THEN {None} ELSE {Some(r) : r \in rows}

SelectOrderById(orders, cid, order_id) ==
    LET rows == JoinedRows(orders,
                    {oid \in DOMAIN orders :
                        orders[oid].CustomerID = cid /\ oid = order_id})
    IN IF rows = {} THEN {None} ELSE {Some(r) : r \in rows}

SelectOrdersInRangeAnyCustomer(orders, cid, start_date, end_date) ==
    OrderByDateDesc(JoinedRows(orders,
        {oid \in DOMAIN orders :
            /\ start_date <= orders[oid].OrderDate
            /\ orders[oid].OrderDate <= end_date}))

\* WHERE o.CustomerID = ? AND o.OrderDate BETWEEN ? AND ? ORDER BY o.OrderDate DESC
SelectOrdersInRange(orders, cid, start_date, end_date) ==
    OrderByDateDesc(JoinedRows(orders,
        {oid \in DOMAIN orders :
            /\ orders[oid].CustomerID = cid
            /\ start_date <= orders[oid].OrderDate
            /\ orders[oid].OrderDate <= end_date}))

(* ---------------------------- order tools ----------------------------- *)

DefaultLimit == 30            \* def forward(self, user_email, limit: int = 30)
DocumentedDefaultLimit == 3   \* "Max rows to return (default 3)."

\* The limit argument: left out, passed as None (the input is nullable), or
\* an integer.
LimitArgs ==
    { [kind |-> "omitted", val |-> 0], [kind |-> "null", val |-> 0] }
        \cup { [kind |-> "int", val |-> n] : n \in -1..MaxLimit }

\* int(max(1, limit)) with the default filled in
EffectiveLimit(limit) ==
    Max(1, IF limit.kind = "omitted" THEN DefaultLimit ELSE limit.val)

UnknownUserOrders == [orders |-> <<>>, note |-> Some("unknown user_email")]
UnknownUserOrder == [order |-> None, note |-> Some("unknown user_email")]
OrderNotFound ==
    [order |-> None, note |-> Some("order not found or not owned by this user")]

\* SQLLastOrdersTool.forward: the set of possible outcomes.
SQLLastOrdersTool_forward(db, orders, user_email, limit, f) ==
    LET c == ensure_connected(setup(NewCall("sql_last_orders", db), f.setup), f.hc, f.reconnect)
        r == get_customer_id(c, user_email, f.lookup)
    IN IF r.ctx.err # None THEN { Raised(r.ctx) }
       ELSE IF r.cid = None THEN { Returned(r.ctx, UnknownUserOrders) }
       ELSE IF limit.kind = "null"
       THEN { Raised([r.ctx EXCEPT !.err = Some("TypeError")]) }
       ELSE LET q == Execute(r.ctx, "SELECT .. FROM Orders WHERE CustomerID = ? ORDER BY OrderDate DESC LIMIT n",
                             "Orders", f.query)
            IN IF q.err # None THEN { Raised(q) }
               ELSE { Returned(q, [orders |-> rows, note |-> None]) :
                        rows \in SelectLastOrders(orders, r.cid[1], EffectiveLimit(limit)) }

\* SQLOrderByIdTool.forward
SQLOrderByIdTool_forward(db, orders, user_email, order_id, f) ==
    LET c == ensure_connected(setup(NewCall("sql_order_by_id", db), f.setup), f.hc, f.reconnect)
        r == get_customer_id(c, user_email, f.lookup)
    IN IF r.ctx.err # None THEN { Raised(r.ctx) }
       ELSE IF r.cid = None THEN { Returned(r.ctx, UnknownUserOrder) }
       ELSE LET q == Execute(r.ctx, "SELECT .. FROM Orders WHERE CustomerID = ? AND OrderID = ?",
                             "Orders", f.query)
            IN IF q.err # None THEN { Raised(q) }
               ELSE { IF row = None
                      THEN Returned(q, OrderNotFound)
                      ELSE Returned(q, [order |-> row, note |-> None]) :
                        row \in SelectOrderById(orders, r.cid[1], order_id) }

\* SQLOrdersInRangeTool.forward
SQLOrdersInRangeTool_forward(db, orders, user_email, start_date, end_date, f) ==
    LET c == ensure_connected(setup(NewCall("sql_orders_in_range", db), f.setup), f.hc, f.reconnect)
        r == get_customer_id(c, user_email, f.lookup)
    IN IF r.ctx.err # None THEN { Raised(r.ctx) }
       ELSE IF r.cid = None THEN { Returned(r.ctx, UnknownUserOrders) }
       ELSE LET q == Execute(r.ctx, "SELECT .. FROM Orders WHERE CustomerID = ? AND OrderDate BETWEEN ? AND ? ORDER BY OrderDate DESC",
                             "Orders", f.query)
            IN IF q.err # None THEN { Raised(q) }
               ELSE { Returned(q, [orders |-> rows, note |-> None]) :
                        rows \in SelectOrdersInRange(orders, r.cid[1], start_date, end_date) }

(* --------------------------- python strings --------------------------- *)

\* A string is the sequence of its characters.
Whitespace == {" ", "\n", "\t"}

RECURSIVE lstrip(_)
lstrip(str) ==
    IF str # <<>> /\ Head(str) \in Whitespace THEN lstrip(Tail(str)) ELSE str

RECURSIVE rstrip(_)
rstrip(str) ==
    IF str # <<>> /\ str[Len(str)] \in Whitespace
    THEN rstrip(SubSeq(str, 1, Len(str) - 1)) ELSE str

\* str.strip()
stripNothing(str) == str

strip(str) == lstrip(rstrip(str))

(* ------------------------ semantic-search tools ----------------------- *)

\* re.fullmatch(r"[A-Za-z0-9._-]+", name or "")
AllowedNameChars == {"a", "Z", "0", ".", "_", "-"}

ValidConfigName(name) ==
    /\ Len(name) >= 1
    /\ \A i \in 1..Len(name) : name[i] \in AllowedNameChars

AnyConfigName(name) == TRUE

\* _validate_config_name raises ValueError unless the name matches.
validate_config_name(name) == ValidConfigName(name)

DocTopKMax == 10        \* max(1, min(int(k), 10))
ProductTopKMax == 20    \* max(1, min(int(k), 20))
DocTopKDefault == 3     \* def forward(self, query, k: int = 3)
ProductTopKDefault == 5 \* def forward(self, query, k: int = 5, ...)

\* The k argument: left out, None, or an integer.
KArgs ==
    { [kind |-> "omitted", val |-> 0], [kind |-> "null", val |-> 0] }
        \cup { [kind |-> "int", val |-> n] : n \in {-1, 0, 10, 11, 20, 21} }

TopKNoFloor(k, default, cap) ==
    Min(IF k.kind = "omitted" THEN default ELSE k.val, cap)

TopK(k, default, cap) ==
    Max(1, Min(IF k.kind = "omitted" THEN default ELSE k.val, cap))

\* The price_max argument: None or a number.
PriceArgs == { None, Some(-1), Some(0), Some(20) }

Queries ==
    { <<>>, <<" ", "\n">>, <<"t", "v">>, <<" ", "t", "v", " ">> }

\* VECTOR_DOT_PRODUCT(x.Embedding, EMBEDDING(?, '<cfg>')): the engine's
\* similarity of a stored row and the query text.  The engine computes it;
\* here it is a fixed function of the row's key and the query.
Score(id, q) == (id * 3 + Len(q)) % 7

SnippetMaxChars == 400  \* SUBSTRING(c.ChunkText, 1, 400)

\* ORDER BY score DESC over rows carrying a score; a NULL score (no stored
\* embedding) sorts below every number.
ScoreKey(r) == IF r.score = None THEN -1 ELSE r.score[1]

RECURSIVE OrderByScoreDesc(_)
OrderByScoreDesc(rows) ==
    IF rows = {} THEN { <<>> }
    ELSE LET top == CHOOSE x \in {ScoreKey(r) : r \in rows} :
                        \A r \in rows : ScoreKey(r) <= x
             first == {r \in rows : ScoreKey(r) = top}
         IN { h \o t : h \in Perms(first), t \in OrderByScoreDesc(rows \ first) }

\* SELECT TOP k c.ChunkID, c.DocID, c.Title, SUBSTRING(c.ChunkText, 1, 400),
\*        VECTOR_DOT_PRODUCT(..) AS score FROM DocChunks c ORDER BY score DESC
SelectDocChunks(chunks, q, top_k) ==
    { Limit(s, top_k) :
        s \in OrderByScoreDesc(
            { [chunk_id |-> chunks[key].ChunkID,
               doc_id |-> key[1],
               title |-> chunks[key].Title,
               snippet |-> strip(SubSeq(chunks[key].ChunkText, 1,
                                   Min(SnippetMaxChars, Len(chunks[key].ChunkText)))),
               score |-> IF chunks[key].Embedding = None THEN None
                         ELSE Some(Score(chunks[key].ChunkID, q))] :
                 key \in DOMAIN chunks }) }

\* SELECT TOP k p.ProductID, p.Name, p.Category, p.Price, VECTOR_DOT_PRODUCT(..) score
\* FROM Products p [WHERE p.Price <= ?] ORDER BY score DESC
SelectProducts(embedding, q, top_k, price_max) ==
    { Limit(s, top_k) :
        s \in OrderByScoreDesc(
            { [ProductID |-> p.ProductID, Price |-> p.Price,
               score |-> IF embedding = None THEN None
                         ELSE Some(Score(p.ProductID, q))] :
                p \in { x \in Products :
                          (price_max # None /\ price_max[1] >= 0)
                              => x.Price <= price_max[1] } }) }

\* The f-string of RAGDocSearchTool.forward.
DocSearchSql(top_k, cfg) ==
    << Lit("SELECT TOP"), Inlined(top_k),
       Lit("c.ChunkID AS chunk_id, c.DocID AS doc_id, c.Title AS title, SUBSTRING(c.ChunkText, 1, 400) AS snippet, VECTOR_DOT_PRODUCT(c.Embedding, EMBEDDING("),
       Placeholder, Lit(", '"), Inlined(cfg),
       Lit("')) AS score FROM Agent_Data.DocChunks c ORDER BY score DESC") >>

\* ' AND '.join(where)
RECURSIVE JoinAnd(_)
JoinAnd(where) ==
    IF where = <<>> THEN <<>>
    ELSE IF Len(where) = 1 THEN Head(where)
    ELSE Head(where) \o <<Lit("AND")>> \o JoinAnd(Tail(where))

\* where / params of RAGProductSearchTool.forward: the first parameter is
\* the text for EMBEDDING(?, cfg); the price is appended with its predicate.
ProductWhereAnyPrice(price_max) ==
    IF price_max # None
    THEN << <<Lit("p.Price <="), Placeholder>> >>
    ELSE <<>>

ProductWhere(price_max) ==
    IF price_max # None /\ price_max[1] >= 0
    THEN << <<Lit("p.Price <="), Placeholder>> >>
    ELSE <<>>

ProductParams(q, price_max) ==
    IF price_max # None /\ price_max[1] >= 0
    THEN << q, price_max[1] >>
    ELSE << q >>

\* The f-string of RAGProductSearchTool.forward.
ProductSearchSql(top_k, cfg, where) ==
    << Lit("SELECT TOP"), Inlined(top_k),
       Lit("p.ProductID, p.Name, p.Category, p.Price, VECTOR_DOT_PRODUCT(p.Embedding, EMBEDDING("),
       Placeholder, Lit(", '"), Inlined(cfg),
       Lit("')) score FROM Agent_Data.Products p") >>
    \o (IF where = <<>> THEN <<>> ELSE <<Lit("WHERE")>> \o JoinAnd(where))
    \o << Lit("ORDER BY score DESC") >>

EmptyQuerySnippets == [snippets |-> <<>>, note |-> Some("empty query")]
EmptyQueryProducts == [products |-> <<>>, note |-> Some("empty query")]

\* RAGDocSearchTool.forward: the set of possible outcomes.
RAGDocSearchTool_forward(db, chunks, config, query, k, f) ==
    LET c == ensure_connected(setup(NewCall("rag_doc_search", db), f.setup),
                              f.hc, f.reconnect)
        q == strip(query)
    IN IF c.err # None THEN { Raised(c) }
       ELSE IF q = <<>> THEN { Returned(c, EmptyQuerySnippets) }
       ELSE IF k.kind = "null"
       THEN { Raised([c EXCEPT !.err = Some("TypeError")]) }
       ELSE IF ~validate_config_name(config)
       THEN { Raised([c EXCEPT !.err = Some("ValueError")]) }
       ELSE LET x == Send(c, "SELECT TOP k .. VECTOR_DOT_PRODUCT(c.Embedding, EMBEDDING(?, cfg)) AS score FROM DocChunks ORDER BY score DESC",
                          DocSearchSql(TopK(k, DocTopKDefault, DocTopKMax), config),
                          << q >>, "DocChunks", f.query)
            IN IF x.err # None THEN { Raised(x) }
               ELSE { Returned(x, [snippets |-> rows, note |-> None]) :
                        rows \in SelectDocChunks(chunks, q,
                                     TopK(k, DocTopKDefault, DocTopKMax)) }

\* RAGProductSearchTool.forward
RAGProductSearchTool_forward(db, embedding, config, query, k, price_max, f) ==
    LET c == ensure_connected(setup(NewCall("rag_product_search", db), f.setup),
                              f.hc, f.reconnect)
        q == strip(query)
    IN IF c.err # None THEN { Raised(c) }
       ELSE IF q = <<>> THEN { Returned(c, EmptyQueryProducts) }
       ELSE IF k.kind = "null"
       THEN { Raised([c EXCEPT !.err = Some("TypeError")]) }
       ELSE IF ~validate_config_name(config)
       THEN { Raised([c EXCEPT !.err = Some("ValueError")]) }
       ELSE LET x == Send(c, "SELECT TOP k .. VECTOR_DOT_PRODUCT(p.Embedding, EMBEDDING(?, cfg)) score FROM Products [WHERE p.Price <= ?] ORDER BY score DESC",
                          ProductSearchSql(TopK(k, ProductTopKDefault, ProductTopKMax),
                                           config, ProductWhere(price_max)),
                          ProductParams(q, price_max), "Products", f.query)
            IN IF x.err # None THEN { Raised(x) }
               ELSE { Returned(x, [products |-> rows, note |-> None]) :
                        rows \in SelectProducts(embedding, q,
                                     TopK(k, ProductTopKDefault, ProductTopKMax),
                                     price_max) }

(* --------------------------- ingestion job ---------------------------- *)

SupportedExts == {".md", ".markdown", ".txt"}

\* path.suffix.lower()
Lower(suffix) ==
    CASE suffix = ".MD" -> ".md"
      [] suffix = ".TXT" -> ".txt"
      [] OTHER -> suffix

\* str.splitlines(): the lines without their terminators
RECURSIVE splitlines(_)
splitlines(str) ==
    IF str = <<>> THEN <<>>
    ELSE LET brk == {i \in 1..Len(str) : str[i] = "\n"}
         IN IF brk = {} THEN << str >>
            ELSE LET i == CHOOSE x \in brk : \A y \in brk : x <= y
                 IN << SubSeq(str, 1, i - 1) >>
                        \o splitlines(SubSeq(str, i + 1, Len(str)))

\* "\n".join(lines)
RECURSIVE join(_)
join(lines) ==
    IF lines = <<>> THEN <<>>
    ELSE IF Len(lines) = 1 THEN lines[1]
    ELSE lines[1] \o <<"\n">> \o join(Tail(lines))

\* str.lstrip("#")
RECURSIVE lstripHash(_)
lstripHash(str) ==
    IF str # <<>> /\ Head(str) = "#" THEN lstripHash(Tail(str)) ELSE str

startswithHash(str) == str # <<>> /\ Head(str) = "#"

\* needle in hay
Contains(hay, needle) ==
    \E i \in 0..(Len(hay) - Len(needle)) :
        SubSeq(hay, i + 1, i + Len(needle)) = needle

\* Title = first Markdown heading if present, else filename
TitleOf(stem, text) ==
    LET lines == splitlines(text)
        heads == {i \in 1..Len(lines) : startswithHash(strip(lines[i]))}
    IN IF heads = {} THEN stem
       ELSE LET i == CHOOSE x \in heads : \A y \in heads : x <= y
                t == strip(lstripHash(lines[i]))
            IN IF t = <<>> THEN stem ELSE t

\* the body: the text without its heading line, cut at DOC_BODY_MAX_CHARS
BodyOf(title, text, max_chars) ==
    LET body == IF startswithHash(text)
                    /\ Contains(SubSeq(text, 1, Min(Len(title) + 4, Len(text))), title)
                THEN lstrip(join(Tail(splitlines(text))))
                ELSE text
    IN IF Len(body) > max_chars THEN SubSeq(body, 1, max_chars) ELSE body

\* _read_docs_from_fs for one file: no row for an unsupported suffix
ReadDoc(file, max_chars) ==
    LET text == strip(file.text)
        title == TitleOf(file.stem, text)
    IN [DocID |-> file.stem, Title |-> title,
        Body |-> BodyOf(title, text, max_chars)]

\* _read_docs_from_fs: rglob yields the files in an order of its own
read_docs_from_fs(files, max_chars) ==
    { [i \in 1..Len(order) |-> ReadDoc(order[i], max_chars)] :
        order \in Perms({f \in files : Lower(f.suffix) \in SupportedExts}) }

\* make_chunks: the windows <<start, end, chunk>> of text
RECURSIVE chunk_loop(_, _, _, _)
chunk_loop(text, size, step, i) ==
    IF i >= Len(text) THEN <<>>
    ELSE LET chunk == SubSeq(text, i + 1, Min(i + size, Len(text)))
         IN IF chunk = <<>> THEN <<>>
            ELSE << <<i, i + Len(chunk), chunk>> >>
                    \o chunk_loop(text, size, step, i + step)

make_chunksNoSizeGuard(text, size, overlap) ==
    chunk_loop(text, size, Max(1, size - Max(0, overlap)), 0)

make_chunksGap(text, size, overlap) ==
    IF size <= 0 THEN << <<0, Len(text), text>> >>
    ELSE chunk_loop(text, size, size + 1, 0)

make_chunks(text, size, overlap) ==
    IF size <= 0 THEN << <<0, Len(text), text>> >>
    ELSE chunk_loop(text, size, Max(1, size - Max(0, overlap)), 0)

\* One statement of the job: an upsert of a chunk row, or a rebuild of the
\* vectors of a table.
Upsert(doc_id, idx, w, title) ==
    [sql |-> "INSERT OR UPDATE DocChunks", table |-> "DocChunks",
     key |-> <<doc_id, idx>>, StartPos |-> w[1], EndPos |-> w[2],
     Title |-> title, ChunkText |-> w[3]]

\* upsert_doc_chunks: the statements it sends, in order
upsert_doc_chunks(doc, size, overlap) ==
    LET chunks == make_chunks(doc.Body, size, overlap)
    IN [i \in 1..Len(chunks) |-> Upsert(doc.DocID, i - 1, chunks[i], doc.Title)]

RECURSIVE upsert_all(_, _, _)
upsert_all(docs, size, overlap) ==
    IF docs = <<>> THEN <<>>
    ELSE upsert_doc_chunks(Head(docs), size, overlap)
            \o upsert_all(Tail(docs), size, overlap)

\* A plain INSERT in place of the upsert: a key already stored gets a
\* second row.
ApplyInsert(chunks, u) ==
    LET key == IF u.key \in DOMAIN chunks
               THEN <<u.key[1], u.key[2] + Cardinality(DOMAIN chunks)>>
               ELSE u.key
        row == [ChunkID |-> Cardinality(DOMAIN chunks) + 1,
                StartPos |-> u.StartPos, EndPos |-> u.EndPos,
                Title |-> u.Title, ChunkText |-> u.ChunkText,
                Embedding |-> None]
    IN [k \in DOMAIN chunks \cup {key} |-> IF k = key THEN row ELSE chunks[k]]

\* INSERT OR UPDATE on the unique key (DocID, ChunkIndex): an existing row
\* keeps its ChunkID and its Embedding; a new row has no Embedding yet.
ApplyUpsert(chunks, u) ==
    LET row == [ChunkID |-> IF u.key \in DOMAIN chunks THEN chunks[u.key].ChunkID
                            ELSE Cardinality(DOMAIN chunks) + 1,
                StartPos |-> u.StartPos, EndPos |-> u.EndPos,
                Title |-> u.Title, ChunkText |-> u.ChunkText,
                Embedding |-> IF u.key \in DOMAIN chunks
                              THEN chunks[u.key].Embedding ELSE None]
    IN [key \in DOMAIN chunks \cup {u.key} |->
            IF key = u.key THEN row ELSE chunks[key]]

RECURSIVE ApplyUpserts(_, _)
ApplyUpserts(chunks, us) ==
    IF us = <<>> THEN chunks
    ELSE ApplyUpserts(ApplyUpsert(chunks, Head(us)), Tail(us))

\* UPDATE DocChunks SET Embedding = EMBEDDING(ChunkText, '<cfg>')
RebuildDocs == [sql |-> "UPDATE DocChunks SET Embedding", table |-> "DocChunks"]
\* UPDATE Products SET Embedding = EMBEDDING(Name || ' ' || Description, '<cfg>')
RebuildProducts == [sql |-> "UPDATE Products SET Embedding", table |-> "Products"]

SetEmbedding(chunks, cfg) ==
    [key \in DOMAIN chunks |-> [chunks[key] EXCEPT !.Embedding = Some(cfg)]]

\* The state of a run of main(): the tables, the statements sent, the
\* exception raised.
JobState(chunks, products) ==
    [chunks |-> chunks, products |-> products, stmts |-> <<>>, err |-> None]

\* db.execute of the job's n-th statement; it fails when n = failAt.
JobExecute(j, stmt, failAt) ==
    IF j.err # None THEN j
    ELSE IF Len(j.stmts) + 1 = failAt
    THEN [j EXCEPT !.stmts = Append(j.stmts, [sql |-> stmt.sql, table |-> stmt.table, ok |-> FALSE]),
                   !.err = Some("ConnectionError")]
    ELSE LET sent == Append(j.stmts, [sql |-> stmt.sql, table |-> stmt.table, ok |-> TRUE])
         IN IF stmt.sql = "INSERT OR UPDATE DocChunks"
            THEN [j EXCEPT !.stmts = sent, !.chunks = ApplyUpsert(j.chunks, stmt)]
            ELSE j

RECURSIVE JobExecuteAll(_, _, _)
JobExecuteAll(j, stmts, failAt) ==
    IF stmts = <<>> THEN j
    ELSE JobExecuteAll(JobExecute(j, Head(stmts), failAt), Tail(stmts), failAt)

\* rebuild_doc_chunk_vectors: validate the name, then one UPDATE
rebuild_doc_chunk_vectors(j, config, failAt) ==
    IF j.err # None THEN j
    ELSE IF ~validate_config_name(config) THEN [j EXCEPT !.err = Some("ValueError")]
    ELSE LET x == JobExecute(j, RebuildDocs, failAt)
         IN IF x.err # None THEN x
            ELSE [x EXCEPT !.chunks = SetEmbedding(x.chunks, config)]

\* rebuild_product_vectors
rebuild_product_vectors(j, config, failAt) ==
    IF j.err # None THEN j
    ELSE IF ~validate_config_name(config) THEN [j EXCEPT !.err = Some("ValueError")]
    ELSE LET x == JobExecute(j, RebuildProducts, failAt)
         IN IF x.err # None THEN x
            ELSE [x EXCEPT !.products = Some(config)]

\* main(): connect, upsert every document's chunks, rebuild the vectors the
\* flags ask for.  connectFail: IRISClient() raises; failAt: the statement
\* that fails (0 for none).  The closing COUNT(*) queries change nothing and
\* their failure is swallowed.
main(chunks, products, files, e, connectFail, failAt) ==
    IF connectFail
    THEN { [JobState(chunks, products) EXCEPT !.err = Some("ConnectionError")] }
    ELSE { LET j1 == JobExecuteAll(JobState(chunks, products),
                         upsert_all(docs, e.CHUNK_SIZE, e.CHUNK_OVERLAP), failAt)
               j2 == IF e.REFRESH_DOC_CHUNK_VECTORS
                     THEN rebuild_doc_chunk_vectors(j1, e.EMBEDDING_CONFIG_NAME, failAt)
                     ELSE j1
           IN IF e.REFRESH_PRODUCT_VECTORS
              THEN rebuild_product_vectors(j2, e.EMBEDDING_CONFIG_NAME, failAt)
              ELSE j2
           : docs \in read_docs_from_fs(files, e.DOC_BODY_MAX_CHARS) }

(* --------------------------- shipping tool ---------------------------- *)

\* str.rstrip("/")
RECURSIVE rstripSlash(_)
rstripSlash(str) ==
    IF str # <<>> /\ str[Len(str)] = "/"
    THEN rstripSlash(SubSeq(str, 1, Len(str) - 1)) ELSE str

\* IRIS_SHIPPING_STATUS_URL, or its default
default_url == <<"h", "/", "s">>

UrlArgs == { None, Some(<<"u", "/">>), Some(<<"u", "/", "x", "/", "/">>) }
RequestIdArgs == { None, Some(""), Some("req-1") }
Uuids == { "uuid-a", "uuid-b" }

\* What requests.post meets: an exception of the transport, or a response
\* with a status, a content-type header and a body that parses as JSON or
\* does not.
ContentTypes ==
    { "application/json", "Application/JSON; charset=utf-8", "text/html", "" }

HttpOutcomes ==
    { [kind |-> x, status |-> 0, content_type |-> "", parses |-> FALSE] :
        x \in {"ConnectionError", "Timeout"} }
    \cup [kind : {"response"}, status : {200, 404, 500},
          content_type : ContentTypes, parses : BOOLEAN]

\* "application/json" in content_type.lower()
DeclaresJson(content_type) ==
    content_type \in {"application/json", "Application/JSON; charset=utf-8"}

\* The exception raised inside the try block, None when there is none:
\* requests.post raises on a transport failure, resp.json() on a body that
\* does not parse.  A status outside 2xx raises nothing.
PostRaisesOnStatus(http) ==
    IF http.kind # "response" THEN Some(http.kind)
    ELSE IF http.status >= 400 THEN Some("HTTPError")
    ELSE IF DeclaresJson(http.content_type) /\ ~http.parses
    THEN Some("JSONDecodeError")
    ELSE None

PostRaises(http) ==
    IF http.kind # "response" THEN Some(http.kind)
    ELSE IF DeclaresJson(http.content_type) /\ ~http.parses
    THEN Some("JSONDecodeError")
    ELSE None

\* ShippingStatusTool.forward: the object whose JSON text it returns
ShippingStatusTool_forward(url, request_id, uuid, http) ==
    LET endpoint == rstripSlash(IF url = None \/ url = Some(<<>>)
                                THEN default_url ELSE url[1])
        rid == IF request_id = None \/ request_id = Some("")
               THEN uuid ELSE request_id[1]
        e == PostRaises(http)
    IN IF e # None
       THEN [endpoint |-> endpoint, requestId |-> rid, error |-> e[1]]
       ELSE [endpoint |-> endpoint, requestId |-> rid,
             httpStatus |-> http.status,
             response |-> IF DeclaresJson(http.content_type)
                          THEN [json |-> TRUE, status |-> http.status]
                          ELSE [json |-> FALSE, status |-> http.status]]

(* ------------------------------ actions ------------------------------- *)

DbTools ==
    {"sql_last_orders", "sql_order_by_id", "sql_orders_in_range",
     "rag_doc_search", "rag_product_search"}

NoArgs ==
    [user_email |-> "", limit |-> [kind |-> "omitted", val |-> 0],
     order_id |-> 0, start_date |-> 0, end_date |-> 0,
     query |-> <<>>, k |-> [kind |-> "omitted", val |-> 0], price_max |-> None,
     url |-> None, request_id |-> None, text |-> <<>>,
     http |-> [kind |-> "", status |-> 0, content_type |-> "", parses |-> FALSE]]

\* The agent loop calls its tools one at a time: a call starts only after
\* the result of the previous one was taken.
Idle == last.tool = "none"

\* The effect of one tool call: the tool keeps the client it ended with, and
\* `last` records the call, with the client and the DocChunks table as the
\* call found them.
Invoke(tool, args, out) ==
    /\ toolDb' = [toolDb EXCEPT ![tool] = out.db]
    /\ last' = [tool |-> tool, args |-> args, db0 |-> toolDb[tool],
                outcome |-> out.outcome,
                error |-> out.error, result |-> out.result,
                stmts |-> out.stmts, opened |-> out.opened,
                chunks0 |-> DocChunks]

SQLLastOrders ==
    /\ Idle
    /\ \E user_email \in Emails, limit \in LimitArgs, f \in FaultsFor(toolDb["sql_last_orders"]) :
           \E out \in SQLLastOrdersTool_forward(toolDb["sql_last_orders"],
                                                Orders, user_email, limit, f) :
               /\ Invoke("sql_last_orders",
                         [NoArgs EXCEPT !.user_email = user_email, !.limit = limit], out)
               /\ UNCHANGED <<cli, ui, Orders, DocChunks, ProductEmbedding, docsDir, env>>

SQLOrderById ==
    /\ Idle
    /\ \E user_email \in Emails, order_id \in 1..(MaxOrders + 1), f \in FaultsFor(toolDb["sql_order_by_id"]) :
           \E out \in SQLOrderByIdTool_forward(toolDb["sql_order_by_id"],
                                               Orders, user_email, order_id, f) :
               /\ Invoke("sql_order_by_id",
                         [NoArgs EXCEPT !.user_email = user_email, !.order_id = order_id], out)
               /\ UNCHANGED <<cli, ui, Orders, DocChunks, ProductEmbedding, docsDir, env>>

SQLOrdersInRange ==
    /\ Idle
    /\ \E user_email \in Emails, start_date \in Dates, end_date \in Dates, f \in FaultsFor(toolDb["sql_orders_in_range"]) :
           \E out \in SQLOrdersInRangeTool_forward(toolDb["sql_orders_in_range"],
                                                   Orders, user_email, start_date, end_date, f) :
               /\ Invoke("sql_orders_in_range",
                         [NoArgs EXCEPT !.user_email = user_email,
                                        !.start_date = start_date, !.end_date = end_date], out)
               /\ UNCHANGED <<cli, ui, Orders, DocChunks, ProductEmbedding, docsDir, env>>

\* CustomerSupportAgent.__init__: one IRISClient injected into the five
\* database tools.  No tool has been called yet.
NoCall ==
    [tool |-> "none", args |-> NoArgs, db0 |-> None,
     outcome |-> "none", error |-> None,
     result |-> None, stmts |-> <<>>, opened |-> 0, chunks0 |-> <<>>]

RAGDocSearch ==
    /\ Idle
    /\ \E query \in Queries, k \in KArgs,
          f \in {g \in FaultsFor(toolDb["rag_doc_search"]) : ~g.lookup} :
           \E out \in RAGDocSearchTool_forward(toolDb["rag_doc_search"], DocChunks,
                          env.EMBEDDING_CONFIG_NAME, query, k, f) :
               /\ Invoke("rag_doc_search",
                         [NoArgs EXCEPT !.query = query, !.k = k], out)
               /\ UNCHANGED <<cli, ui, Orders, DocChunks, ProductEmbedding, docsDir, env>>

RAGProductSearch ==
    /\ Idle
    /\ \E query \in Queries, k \in KArgs, price_max \in PriceArgs,
          f \in {g \in FaultsFor(toolDb["rag_product_search"]) : ~g.lookup} :
           \E out \in RAGProductSearchTool_forward(toolDb["rag_product_search"],
                          ProductEmbedding, env.EMBEDDING_CONFIG_NAME, query, k, price_max, f) :
               /\ Invoke("rag_product_search",
                         [NoArgs EXCEPT !.query = query, !.k = k,
                                        !.price_max = price_max], out)
               /\ UNCHANGED <<cli, ui, Orders, DocChunks, ProductEmbedding, docsDir, env>>

ShippingStatus ==
    /\ Idle
    /\ \E url \in UrlArgs, request_id \in RequestIdArgs, uuid \in Uuids,
          http \in HttpOutcomes :
           /\ last' = [tool |-> "shipping_status",
                       args |-> [NoArgs EXCEPT !.url = url, !.request_id = request_id,
                                               !.http = http],
                       db0 |-> None, outcome |-> "returned", error |-> None,
                       result |-> ShippingStatusTool_forward(url, request_id, uuid, http),
                       stmts |-> <<>>, opened |-> 0]
           /\ UNCHANGED <<cli, ui, Orders, DocChunks, ProductEmbedding, docsDir, env, toolDb>>

\* A run of scripts/embed_sql.py.  The job is a process of its own with a
\* client of its own; it is run while no tool call is in progress.
MaxJobStatements == 7

Ingest ==
    /\ Idle
    /\ \E connectFail \in BOOLEAN, failAt \in 0..MaxJobStatements :
           \E j \in main(DocChunks, ProductEmbedding, docsDir, env, connectFail, failAt) :
               /\ (failAt # 0 /\ ~connectFail) => (j.err = Some("ConnectionError") /\ Len(j.stmts) = failAt)
               /\ connectFail => failAt = 0
               /\ DocChunks' = j.chunks
               /\ ProductEmbedding' = j.products
               /\ last' = [tool |-> "embed_sql", args |-> NoArgs, db0 |-> None,
                           outcome |-> IF j.err = None THEN "returned" ELSE "raised",
                           error |-> j.err,
                           result |-> None,
                           stmts |-> j.stmts, opened |-> IF connectFail THEN 0 ELSE 1,
                           chunks0 |-> DocChunks]
               /\ UNCHANGED <<cli, ui, Orders, docsDir, env, toolDb>>

\* The texts handed to make_chunks: every length up to MaxText.
Alphabet == <<"a", "b", "c", "d", "e", "f", "g", "h">>
ChunkTexts ==
    { [i \in 1..n |-> Alphabet[((i - 1) % Len(Alphabet)) + 1]] : n \in 0..MaxText }

\* make_chunks(text) with the size and overlap the module read from the
\* environment (the defaults of its parameters).
MakeChunks ==
    /\ Idle
    /\ \E text \in ChunkTexts :
           last' = [NoCall EXCEPT
                      !.tool = "make_chunks",
                      !.args = [NoArgs EXCEPT !.text = text],
                      !.outcome = "returned",
                      !.result = Some(make_chunks(text, env.CHUNK_SIZE, env.CHUNK_OVERLAP))]
    /\ UNCHANGED <<cli, ui, Orders, DocChunks, ProductEmbedding, docsDir, env, toolDb>>

\* The agent loop takes the result (or the exception) of the call.
ToolReturn ==
    /\ last.tool # "none"
    /\ last' = NoCall
    /\ UNCHANGED <<cli, ui, Orders, DocChunks, ProductEmbedding, docsDir, env, toolDb>>

(* --------------------------- the orchestrator ------------------------- *)

\* `not os.getenv(NAME)`: the variable is unset or empty.
Falsy(v) == v = None \/ v[1] = <<>>

AllTools == DbTools \cup {"shipping_status"}

CustomerSupportAgent_initNoKeyCheck(e, connFail) ==
    LET c == IRISClient(NewCall(AgentClient, None), connFail)
    IN IF c.err # None
       THEN [err |-> c.err, model |-> TRUE, opened |-> 0, tools |-> {}]
       ELSE [err |-> None, model |-> TRUE, opened |-> 1, tools |-> AllTools]

\* CustomerSupportAgent.__init__: the key check, the model client, one
\* IRISClient, the six tools around it, the CodeAgent.  What exists when it
\* returns or raises: the model client, the connections opened, the tools.
CustomerSupportAgent_init(e, connFail) ==
    IF Falsy(e.OPENAI_API_KEY)
    THEN [err |-> Some("ValueError"), model |-> FALSE, opened |-> 0, tools |-> {}]
    ELSE LET c == IRISClient(NewCall(AgentClient, None), connFail)
         IN IF c.err # None
            THEN [err |-> c.err, model |-> TRUE, opened |-> 0, tools |-> {}]
            ELSE [err |-> None, model |-> TRUE, opened |-> 1, tools |-> AllTools]

\* The clients of the tools CustomerSupportAgent.__init__ has built.
BuiltTools == [t \in DbTools |-> Some(AgentClient)]

\* CustomerSupportAgent() called by a program of its own (a script, a test).
NewAgent ==
    /\ Idle
    /\ \E connFail \in BOOLEAN :
          LET a == CustomerSupportAgent_init(env, connFail)
          IN /\ toolDb' = IF a.err = None THEN BuiltTools ELSE toolDb
             /\ last' = [NoCall EXCEPT
                           !.tool = "CustomerSupportAgent",
                           !.outcome = IF a.err = None THEN "returned" ELSE "raised",
                           !.error = a.err,
                           !.opened = a.opened,
                           !.result = Some([model |-> a.model, tools |-> a.tools])]
    /\ UNCHANGED <<cli, ui, Orders, DocChunks, ProductEmbedding, docsDir, env>>

(* ------------------------- the terminal runner ------------------------ *)

\* str.lower() over the letters the inputs use
LowerChar(ch) ==
    CASE ch = "E" -> "e" [] ch = "X" -> "x" [] ch = "I" -> "i"
      [] ch = "T" -> "t" [] ch = "Q" -> "q" [] ch = "U" -> "u"
      [] OTHER -> ch

lower(str) == [i \in 1..Len(str) |-> LowerChar(str[i])]

\* msg.lower() in {"exit", "quit", "q"}
ExitWords == { <<"e", "x", "i", "t">>, <<"q", "u", "i", "t">>, <<"q">> }

\* What agent(user_email=.., message=..) does to its caller: it returns an
\* answer, raises, or is interrupted from the keyboard.
AgentOutcomes == {"answer", "error", "interrupt"}

\* The command line: --email (required by argparse) and --message.
Argvs ==
    [email : {None, Some("alice@example.com"), Some("bob@example.com")},
     message : {None, Some(<<>>), Some(<<" ">>), Some(<<"h", "i">>)}]

\* What input() yields: a line, end of file, or a keyboard interrupt.
InputEvents ==
    { [kind |-> "line", text |-> t] :
        t \in { <<>>, <<" ">>, <<"h", "i">>, <<" ", "Q", "u", "i", "t", " ">>,
                <<"E", "X", "I", "T">>, <<"q">>, <<"q", "q">> } }
        \cup { [kind |-> "eof", text |-> <<>>], [kind |-> "interrupt", text |-> <<>>] }

\* No run of the terminal runner.
CliOff ==
    [pc |-> "off", argv |-> [email |-> None, message |-> None],
     agent |-> FALSE, calls |-> <<>>, stdout |-> <<>>, stderr |-> FALSE,
     status |-> None, inputs |-> <<>>]

\* The process ends with this exit status.
Exit(c, status) == [c EXCEPT !.pc = "exited", !.status = Some(status)]

\* resp = agent(user_email=args.email, message=msg); print(resp["answer"])
CallAgent(c, msg, out) ==
    LET called == [c EXCEPT !.calls = Append(c.calls,
                       [user_email |-> c.argv.email[1], message |-> msg])]
    IN IF out = "answer"
       THEN [called EXCEPT !.stdout = Append(called.stdout, "answer")]
       ELSE called

\* `if args.message:` one-shot mode is taken when the message is truthy.
OneShot(message) == message # None /\ message[1] # <<>>

\* main() up to its first input(): parse the arguments, check the key,
\* build the agent, answer the one-shot message or open the REPL.
CliMain ==
    /\ cli.pc = "start"
    /\ \E connFail \in BOOLEAN, out \in AgentOutcomes :
          LET a == CustomerSupportAgent_init(env, connFail)
              built == [cli EXCEPT !.agent = TRUE]
          IN IF cli.argv.email = None
             THEN /\ cli' = Exit([cli EXCEPT !.stderr = TRUE], 2)
                  /\ toolDb' = toolDb
             ELSE IF Falsy(env.OPENAI_API_KEY)
             THEN /\ cli' = Exit([cli EXCEPT !.stderr = TRUE], 1)
                  /\ toolDb' = toolDb
             ELSE IF a.err # None
             THEN /\ cli' = Exit([cli EXCEPT !.stderr = TRUE], 1)
                  /\ toolDb' = toolDb
             ELSE /\ toolDb' = BuiltTools
                  /\ IF OneShot(cli.argv.message)
                     THEN LET r == CallAgent(built, cli.argv.message[1], out)
                          IN cli' = IF out = "answer" THEN Exit(r, 0)
                                    ELSE IF out = "error"
                                    THEN Exit([r EXCEPT !.stderr = TRUE], 1)
                                    ELSE Exit([r EXCEPT !.stderr = TRUE], 130)
                     ELSE cli' = [built EXCEPT !.pc = "repl",
                                               !.stdout = Append(built.stdout, "banner")]
    /\ UNCHANGED <<ui, Orders, DocChunks, ProductEmbedding, docsDir, env, last>>

\* One turn of the REPL: input(), then the body of the loop.
CliInput ==
    /\ cli.pc = "repl"
    /\ Len(cli.inputs) < MaxInputs
    /\ \E ev \in InputEvents, out \in AgentOutcomes :
          LET read == [cli EXCEPT !.inputs = Append(cli.inputs, ev)]
              msg == strip(ev.text)
              newline == [read EXCEPT !.stdout = Append(read.stdout, "newline")]
          IN cli' =
               IF ev.kind # "line" THEN Exit(newline, 0)
               ELSE IF msg = <<>> THEN read
               ELSE IF lower(msg) \in ExitWords THEN Exit(read, 0)
               ELSE LET r == CallAgent(read, msg, out)
                    IN IF out = "answer" THEN r
                       ELSE IF out = "interrupt"
                       THEN Exit([r EXCEPT !.stdout = Append(r.stdout, "newline")], 0)
                       ELSE Exit([r EXCEPT !.stderr = TRUE], 1)
    /\ UNCHANGED <<ui, Orders, DocChunks, ProductEmbedding, docsDir, env, toolDb, last>>

(* ------------------------------ the UI -------------------------------- *)

\* The request threads of the UI server.
Threads == {"t1", "t2"}

\* A request thread: where it is in _agent(), the instance it has built, the
\* calls it made and what each gave it (the instance returned, or the
\* exception raised).
ThreadIdle == [pc |-> "idle", local |-> 0, calls |-> 0, returned |-> <<>>]

\* What a submit chain remembers of its start: whether the message was
\* blank, the history, the agent calls and the constructions so far; and of
\* its bot_respond: the email it was given, whether it acted, and whether
\* it has ended with the page still showing its result.
NoChain ==
    [blank |-> FALSE, history0 |-> <<>>, calls0 |-> 0, built0 |-> 0,
     email |-> <<>>, acted |-> FALSE, done |-> FALSE]

\* The chat page of the debug UI: the chain in progress, the Chatbot value,
\* the message box, the debug panel, the calls of the agent.  No page open.
ChatOff ==
    [pc |-> "off", history |-> <<>>, box |-> <<>>, debug |-> "",
     calls |-> <<>>, events |-> 0, chain |-> NoChain]

\* No UI process.
UiOff ==
    [on |-> FALSE, AGENT |-> None, built |-> 0,
     threads |-> [t \in Threads |-> ThreadIdle],
     chat |-> ChatOff]

\* _agent(), entered by a request thread: `if _AGENT is None`, and under it
\* the key check.
UiCall(t) ==
    /\ ui.on
    /\ ui.threads[t].pc = "idle"
    /\ ui.threads[t].calls < MaxUiCalls
    /\ LET th == [ui.threads[t] EXCEPT !.calls = ui.threads[t].calls + 1]
       IN ui' = [ui EXCEPT !.threads[t] =
                    IF ui.AGENT # None THEN [th EXCEPT !.pc = "return"]
                    ELSE IF Falsy(env.OPENAI_API_KEY)
                    THEN [th EXCEPT !.returned = Append(th.returned, [raised |-> "RuntimeError"])]
                    ELSE [th EXCEPT !.pc = "construct"]]
    /\ UNCHANGED <<cli, Orders, DocChunks, ProductEmbedding, docsDir, env, toolDb, last>>

\* CustomerSupportAgent() on the right of `_AGENT = ...`
UiConstruct(t) ==
    /\ ui.on
    /\ ui.threads[t].pc = "construct"
    /\ \E connFail \in BOOLEAN :
          LET a == CustomerSupportAgent_init(env, connFail)
          IN IF a.err # None
             THEN /\ ui' = [ui EXCEPT !.threads[t].pc = "idle",
                                      !.threads[t].returned =
                                          Append(ui.threads[t].returned, [raised |-> a.err[1]])]
                  /\ toolDb' = toolDb
             ELSE /\ ui' = [ui EXCEPT !.built = ui.built + 1,
                                      !.threads[t].local = ui.built + 1,
                                      !.threads[t].pc = "assign"]
                  /\ toolDb' = BuiltTools
    /\ UNCHANGED <<cli, Orders, DocChunks, ProductEmbedding, docsDir, env, last>>

\* the store to the global: _AGENT = <the new instance>
UiAssign(t) ==
    /\ ui.on
    /\ ui.threads[t].pc = "assign"
    /\ ui' = [ui EXCEPT !.AGENT = Some(ui.threads[t].local),
                        !.threads[t].pc = "return"]
    /\ UNCHANGED <<cli, Orders, DocChunks, ProductEmbedding, docsDir, env, toolDb, last>>

\* return _AGENT
UiReturn(t) ==
    /\ ui.on
    /\ ui.threads[t].pc = "return"
    /\ ui' = [ui EXCEPT !.threads[t].pc = "idle",
                        !.threads[t].returned =
                            Append(ui.threads[t].returned, [agent |-> ui.AGENT[1]])]
    /\ UNCHANGED <<cli, Orders, DocChunks, ProductEmbedding, docsDir, env, toolDb, last>>

(* ---------------------------- the chat page -------------------------- *)

\* What the user types into the message box.
ChatMessages == { <<>>, <<" ", "\n">>, <<"h", "i">>, <<" ", "o", "k">> }

\* SAMPLE_PROMPTS, the texts of the prompt buttons
SamplePrompts == { <<"W", "h", "e", "r", "e", "?">>, <<"S", "h", "o", "w">> }

\* The email box as the user may leave it.
EmailInputs == { <<>>, <<"a", "l">>, <<"a", "@", "b">> }

\* `not email or "@" not in email`
InvalidEmail(email) == email = <<>> \/ ~Contains(email, <<"@">>)

EmailReply == "Please enter a valid email (e.g., alice@example.com)."

\* _agent() run by one handler from its first line to its return.
agent(u, e, connFail) ==
    IF u.AGENT # None THEN [ui |-> u, err |-> None]
    ELSE IF Falsy(e.OPENAI_API_KEY) THEN [ui |-> u, err |-> Some("RuntimeError")]
    ELSE LET a == CustomerSupportAgent_init(e, connFail)
         IN IF a.err # None THEN [ui |-> u, err |-> a.err]
            ELSE [ui |-> [u EXCEPT !.AGENT = Some(u.built + 1), !.built = u.built + 1],
                  err |-> None]

\* respond_with_debug: the email check, then the agent under redirected
\* output.  It gives the reply and the debug text, or raises.  The message
\* comes with the number of the submit that put it into the history.
respond_with_debug(u, e, message, email, connFail, out) ==
    IF InvalidEmail(email)
    THEN [ui |-> u, err |-> None, reply |-> EmailReply, debug |-> ""]
    ELSE LET g == agent(u, e, connFail)
             called == [g.ui EXCEPT !.chat.calls = Append(g.ui.chat.calls,
                            [user_email |-> email, message |-> message.text,
                             submit |-> message.submit])]
         IN IF g.err # None THEN [ui |-> g.ui, err |-> g.err, reply |-> "", debug |-> ""]
            ELSE IF out = "error"
            THEN [ui |-> called, err |-> Some("AgentError"), reply |-> "", debug |-> ""]
            ELSE [ui |-> called, err |-> None, reply |-> "answer", debug |-> "debug"]

\* The start of a chain of handlers, with what it finds.
StartChain(u, box) ==
    [u EXCEPT !.chat.pc = "submit",
              !.chat.box = box,
              !.chat.events = u.chat.events + 1,
              !.chat.chain = [NoChain EXCEPT !.history0 = u.chat.history,
                                             !.calls0 = Len(u.chat.calls),
                                             !.built0 = u.built]]

\* submit_btn.click / msg_input.submit: the user sends what they typed.
ChatSend ==
    /\ ui.chat.pc = "idle"
    /\ ui.chat.events < MaxEvents
    /\ \E message \in ChatMessages : ui' = StartChain(ui, message)
    /\ UNCHANGED <<cli, Orders, DocChunks, ProductEmbedding, docsDir, env, toolDb, last>>

\* a prompt button: fill_prompt puts its text into the message box
ChatSample ==
    /\ ui.chat.pc = "idle"
    /\ ui.chat.events < MaxEvents
    /\ \E prompt_text \in SamplePrompts : ui' = StartChain(ui, prompt_text)
    /\ UNCHANGED <<cli, Orders, DocChunks, ProductEmbedding, docsDir, env, toolDb, last>>

\* user_submit(message, history)
user_submit ==
    /\ ui.chat.pc = "submit"
    /\ LET message == ui.chat.box
       IN ui' = IF strip(message) = <<>>
                THEN [ui EXCEPT !.chat.pc = "respond", !.chat.box = <<>>,
                                !.chat.debug = "", !.chat.chain.blank = TRUE]
                ELSE [ui EXCEPT !.chat.pc = "respond", !.chat.box = <<>>,
                                !.chat.debug = "",
                                !.chat.history = Append(ui.chat.history,
                                    [message |-> message, answer |-> None,
                                     submit |-> ui.chat.events])]
    /\ UNCHANGED <<cli, Orders, DocChunks, ProductEmbedding, docsDir, env, toolDb, last>>

\* bot_respond(history, email); when it raises the page keeps what it shows.
bot_respond ==
    /\ ui.chat.pc = "respond"
    /\ \E email \in EmailInputs, connFail \in BOOLEAN, out \in {"answer", "error"} :
          LET history == ui.chat.history
              given == [ui EXCEPT !.chat.pc = "idle", !.chat.chain.email = email,
                                  !.chat.chain.done = TRUE]
          IN IF history = <<>> \/ history[Len(history)].answer # None
             THEN /\ ui' = [given EXCEPT !.chat.debug = ""]
                  /\ toolDb' = toolDb
             ELSE LET r == respond_with_debug(
                               [given EXCEPT !.chat.chain.acted = TRUE], env,
                               [text |-> history[Len(history)].message,
                                submit |-> history[Len(history)].submit],
                               email, connFail, out)
                  IN /\ ui' = IF r.err # None THEN r.ui
                              ELSE [r.ui EXCEPT
                                      !.chat.history[Len(history)].answer = Some(r.reply),
                                      !.chat.debug = r.debug]
                     /\ toolDb' = IF r.ui.built > ui.built THEN BuiltTools ELSE toolDb
    /\ UNCHANGED <<cli, Orders, DocChunks, ProductEmbedding, docsDir, env, last>>

\* clear_btn.click
ChatClear ==
    /\ ui.chat.pc = "idle"
    /\ ui.chat.history # <<>>
    /\ ui' = [ui EXCEPT !.chat.history = <<>>, !.chat.debug = "",
                        !.chat.chain = NoChain]
    /\ UNCHANGED <<cli, Orders, DocChunks, ProductEmbedding, docsDir, env, toolDb, last>>

\* EMBEDDING_CONFIG_NAME as the environment may set it: accepted names, the
\* empty string, names with a character outside the allow-list.
ConfigNames ==
    { <<"a", "-", "0">>, <<"Z", ".", "_">>, <<>>, <<"a", ";", "a">> }

\* The environment: the variables the tools and the ingestion job read.
\* Sizes are in characters, scaled to the short files of docsDir.
DefaultEnv ==
    [OPENAI_API_KEY |-> Some(<<"s", "k">>),
     EMBEDDING_CONFIG_NAME |-> <<"a", "-", "0">>,
     DOC_BODY_MAX_CHARS |-> 4,
     CHUNK_SIZE |-> 2,
     CHUNK_OVERLAP |-> 1,
     REFRESH_DOC_CHUNK_VECTORS |-> TRUE,
     REFRESH_PRODUCT_VECTORS |-> TRUE]

StemFaq == <<"f", "q">>
StemRet == <<"r">>

\* Folders of documents.  Two files of one folder share the stem "fq".
File(stem, suffix, text) == [stem |-> stem, suffix |-> suffix, text |-> text]

DocFolders ==
    { {},
      { File(StemFaq, ".md", <<"#", "T", "\n", "a", "b", "c", "d", "e", " ">>),
        File(StemRet, ".png", <<"a">>) },
      { File(StemFaq, ".md", <<"a", "b", "c">>),
        File(StemFaq, ".TXT", <<"d", "e">>) } }

\* A DocChunks table as an earlier ingestion left it.
StoredChunks(n) ==
    [key \in {<<StemFaq, i>> : i \in 0..(n - 1)} |->
        [ChunkID |-> key[2] + 1, StartPos |-> key[2], EndPos |-> key[2] + 2,
         Title |-> StemFaq, ChunkText |-> <<" ", "t">>,
         Embedding |-> Some(<<"a", "-", "0">>)]]

\* The tools as CustomerSupportAgent.__init__ builds them, one client
\* injected into all five, or built on their own with no client.
ToolSets ==
    { [t \in DbTools |-> Some(AgentClient)], [t \in DbTools |-> None] }

InitSQL ==
    /\ Orders \in OrderTables
    /\ DocChunks = StoredChunks(2)
    /\ ProductEmbedding = Some(DefaultEnv.EMBEDDING_CONFIG_NAME)
    /\ docsDir = {}
    /\ env = DefaultEnv
    /\ toolDb \in ToolSets
    /\ last = NoCall
    /\ cli = CliOff
    /\ ui = UiOff

NextSQL == SQLLastOrders \/ SQLOrderById \/ SQLOrdersInRange \/ ToolReturn

SpecSQL == InitSQL /\ [][NextSQL]_vars

\* The search tools, under every embedding configuration name.
InitRAG ==
    /\ Orders \in {t \in OrderTables : \A oid \in OrderIDs : t[oid].CustomerID = 1}
    /\ DocChunks \in {StoredChunks(n) : n \in 0..MaxChunks}
    /\ ProductEmbedding = Some(DefaultEnv.EMBEDDING_CONFIG_NAME)
    /\ docsDir = {}
    /\ env \in {[DefaultEnv EXCEPT !.EMBEDDING_CONFIG_NAME = n] : n \in ConfigNames}
    /\ toolDb \in ToolSets
    /\ last = NoCall
    /\ cli = CliOff
    /\ ui = UiOff

NextRAG == RAGDocSearch \/ RAGProductSearch \/ ToolReturn

SpecRAG == InitRAG /\ [][NextRAG]_vars

\* The shipping tool.
InitShip ==
    /\ Orders \in {t \in OrderTables : \A oid \in OrderIDs : t[oid].CustomerID = 1}
    /\ DocChunks = StoredChunks(0)
    /\ ProductEmbedding = None
    /\ docsDir = {}
    /\ env = DefaultEnv
    /\ toolDb \in ToolSets
    /\ last = NoCall
    /\ cli = CliOff
    /\ ui = UiOff

NextShip == ShippingStatus \/ ToolReturn

SpecShip == InitShip /\ [][NextShip]_vars

\* The agent with its six tools.
Init ==
    /\ Orders \in {t \in OrderTables :
                      \E k \in {1, MaxOrders} : \A oid \in OrderIDs :
                          t[oid].CustomerID = IF oid <= k THEN 1 ELSE 2}
    /\ DocChunks = StoredChunks(MaxChunks)
    /\ ProductEmbedding = Some(DefaultEnv.EMBEDDING_CONFIG_NAME)
    /\ docsDir = {}
    /\ env \in {[DefaultEnv EXCEPT !.EMBEDDING_CONFIG_NAME = n] :
                   n \in {<<"a", "-", "0">>, <<"a", ";", "a">>}}
    /\ toolDb \in ToolSets
    /\ last = NoCall
    /\ cli = CliOff
    /\ ui = UiOff

Next ==
    \/ SQLLastOrders \/ SQLOrderById \/ SQLOrdersInRange
    \/ RAGDocSearch \/ RAGProductSearch
    \/ ShippingStatus
    \/ ToolReturn

Spec == Init /\ [][Next]_vars

\* The ingestion job and the search tools over the tables it fills.
InitEmbed ==
    /\ Orders \in {t \in OrderTables : \A oid \in OrderIDs : t[oid].CustomerID = 1}
    /\ DocChunks = StoredChunks(0)
    /\ ProductEmbedding = None
    /\ docsDir \in DocFolders
    /\ env \in {[DefaultEnv EXCEPT !.EMBEDDING_CONFIG_NAME = n,
                                   !.REFRESH_DOC_CHUNK_VECTORS = rd,
                                   !.REFRESH_PRODUCT_VECTORS = rp] :
                   n \in ConfigNames, rd \in BOOLEAN, rp \in BOOLEAN}
    /\ toolDb = [t \in DbTools |-> Some(AgentClient)]
    /\ last = NoCall
    /\ cli = CliOff
    /\ ui = UiOff

NextEmbed == Ingest \/ RAGDocSearch \/ RAGProductSearch \/ ToolReturn

SpecEmbed == InitEmbed /\ [][NextEmbed]_vars

\* make_chunks over every size and overlap the environment may set.
InitChunks ==
    /\ Orders \in {t \in OrderTables : \A oid \in OrderIDs : t[oid].CustomerID = 1}
    /\ DocChunks = StoredChunks(0)
    /\ ProductEmbedding = None
    /\ docsDir = {}
    /\ env \in {[DefaultEnv EXCEPT !.CHUNK_SIZE = size, !.CHUNK_OVERLAP = overlap] :
                   size \in (-1)..MaxSize, overlap \in (-1)..(MaxSize + 1)}
    /\ toolDb = [t \in DbTools |-> None]
    /\ last = NoCall
    /\ cli = CliOff
    /\ ui = UiOff

NextChunks == MakeChunks \/ ToolReturn

SpecChunks == InitChunks /\ [][NextChunks]_vars

\* OPENAI_API_KEY as the environment may hold it: unset, empty, set.
ApiKeys == { None, Some(<<>>), Some(<<"s", "k">>) }

\* The terminal runner, and CustomerSupportAgent() on its own.
InitCLI ==
    /\ Orders \in {t \in OrderTables : \A oid \in OrderIDs : t[oid].CustomerID = 1}
    /\ DocChunks = StoredChunks(0)
    /\ ProductEmbedding = None
    /\ docsDir = {}
    /\ env \in {[DefaultEnv EXCEPT !.OPENAI_API_KEY = key] : key \in ApiKeys}
    /\ toolDb = [t \in DbTools |-> None]
    /\ last = NoCall
    /\ cli \in {[CliOff EXCEPT !.pc = "start", !.argv = a] : a \in Argvs}
    /\ ui = UiOff

NextCLI == CliMain \/ CliInput \/ NewAgent \/ ToolReturn

SpecCLI == InitCLI /\ [][NextCLI]_vars

\* The UI process and its request threads.
InitUI ==
    /\ Orders \in {t \in OrderTables : \A oid \in OrderIDs : t[oid].CustomerID = 1}
    /\ DocChunks = StoredChunks(0)
    /\ ProductEmbedding = None
    /\ docsDir = {}
    /\ env \in {[DefaultEnv EXCEPT !.OPENAI_API_KEY = key] : key \in ApiKeys}
    /\ toolDb = [t \in DbTools |-> None]
    /\ last = NoCall
    /\ cli = CliOff
    /\ ui = [UiOff EXCEPT !.on = TRUE]

NextUI ==
    \E t \in Threads : UiCall(t) \/ UiConstruct(t) \/ UiAssign(t) \/ UiReturn(t)

SpecUI == InitUI /\ [][NextUI]_vars

\* The chat page of the debug UI, its handlers run one chain at a time.
InitChat ==
    /\ Orders \in {t \in OrderTables : \A oid \in OrderIDs : t[oid].CustomerID = 1}
    /\ DocChunks = StoredChunks(0)
    /\ ProductEmbedding = None
    /\ docsDir = {}
    /\ env \in {[DefaultEnv EXCEPT !.OPENAI_API_KEY = key] : key \in ApiKeys}
    /\ toolDb = [t \in DbTools |-> None]
    /\ last = NoCall
    /\ cli = CliOff
    /\ ui = [UiOff EXCEPT !.chat.pc = "idle"]

NextChat == ChatSend \/ ChatSample \/ user_submit \/ bot_respond \/ ChatClear

SpecChat == InitChat /\ [][NextChat]_vars

(* ===================== properties of the order tools ================== *)

OrderTools == {"sql_last_orders", "sql_order_by_id", "sql_orders_in_range"}

KnownEmail(email) == \E c \in Customers : c.Email = email

\* The order rows the last call handed to its caller.
ReturnedRows ==
    IF last.outcome # "returned" THEN {}
    ELSE IF last.tool \in {"sql_last_orders", "sql_orders_in_range"}
    THEN { last.result.orders[i] : i \in 1..Len(last.result.orders) }
    ELSE IF last.tool = "sql_order_by_id" /\ last.result.order # None
    THEN { last.result.order[1] }
    ELSE {}

\* The customer a stored order belongs to is the one the email names.
OwnedBy(oid, email) ==
    \E c \in Customers : c.Email = email /\ Orders[oid].CustomerID = c.CustomerID

\* C1: every order row an order tool returns belongs to the customer that
\* the user_email argument of that same call resolves to; this holds after
\* any sequence of calls with any emails.
C1_OnlyOwnRows ==
    last.tool \in OrderTools =>
        \A row \in ReturnedRows :
            /\ row.OrderID \in DOMAIN Orders
            /\ OwnedBy(row.OrderID, last.args.user_email)

\* a range call returned rows while an order of another customer lies in
\* the same range
C1_Witness ==
    /\ last.tool = "sql_orders_in_range"
    /\ ReturnedRows # {}
    /\ \E oid \in DOMAIN Orders :
          /\ ~OwnedBy(oid, last.args.user_email)
          /\ last.args.start_date <= Orders[oid].OrderDate
          /\ Orders[oid].OrderDate <= last.args.end_date

NoFault ==
    [setup |-> FALSE, hc |-> FALSE, reconnect |-> FALSE,
     lookup |-> FALSE, query |-> FALSE]

NoSuchOrderId == MaxOrders + 1

\* The last call asked, with a known customer's email, for an existing order
\* of somebody else, and returned.
AskedForForeignOrder ==
    /\ last.tool = "sql_order_by_id"
    /\ last.outcome = "returned"
    /\ KnownEmail(last.args.user_email)
    /\ last.args.order_id \in DOMAIN Orders
    /\ ~OwnedBy(last.args.order_id, last.args.user_email)

\* C2: sql_order_by_id with a known customer's email and the id of an order
\* of another customer returns order = null with the note "order not found or
\* not owned by this user", the very result the same caller gets for an order
\* id that does not exist.
C2_ForeignOrderLooksMissing ==
    AskedForForeignOrder =>
        /\ last.result = OrderNotFound
        /\ \A out \in SQLOrderByIdTool_forward(Some(AgentClient), Orders,
                          last.args.user_email, NoSuchOrderId, NoFault) :
               out.outcome = "returned" /\ out.result = last.result

C2_Witness ==
    AskedForForeignOrder /\ last.result.order = None

\* The text of the statements of the last call, in order.
SentSql == [i \in 1..Len(last.stmts) |-> last.stmts[i].sql]

\* C3: for an email with no Customers row, an order tool sends no statement
\* against Orders; when it returns, it returns the empty result with the note
\* "unknown user_email" after exactly the health check and the email lookup;
\* it raises only when the connection fails.
C3_UnknownEmailRefused ==
    (last.tool \in OrderTools /\ ~KnownEmail(last.args.user_email)) =>
        /\ \A i \in 1..Len(last.stmts) : last.stmts[i].table # "Orders"
        /\ last.outcome = "returned" =>
              /\ last.result = IF last.tool = "sql_order_by_id"
                               THEN UnknownUserOrder ELSE UnknownUserOrders
              /\ SentSql = <<"SELECT 1 AS one",
                             "SELECT CustomerID FROM Customers WHERE Email = ?">>
        /\ last.outcome = "raised" =>
              /\ last.error = Some("ConnectionError")
              /\ \/ \E i \in 1..Len(last.stmts) : ~last.stmts[i].ok
                 \/ last.stmts = <<>>

C3_Witness ==
    /\ last.tool = "sql_last_orders"
    /\ ~KnownEmail(last.args.user_email)
    /\ last.outcome = "returned"
    /\ last.args.limit.kind = "null"
    /\ Len(last.stmts) = 2

\* The joined rows stored for the customer of `email`.
RowsOf(email) ==
    JoinedRows(Orders, {oid \in DOMAIN Orders : OwnedBy(oid, email)})

\* C9: sql_last_orders with an integer limit n returns the newest
\* min(max(1, n), all) rows of the resolved customer, by non-increasing order
\* date: never more than n rows for n >= 1, and a limit below 1 acts as 1.
\* Without a limit the result is still capped, by the default.
C9_LastOrdersBounded ==
    (last.tool = "sql_last_orders" /\ last.outcome = "returned"
        /\ KnownEmail(last.args.user_email)) =>
        LET rows == last.result.orders
            n == last.args.limit.val
        IN /\ \A i \in 1..Len(rows) : rows[i] \in RowsOf(last.args.user_email)
           /\ \A i, j \in 1..Len(rows) : i < j => rows[i] # rows[j]
           /\ \A i, j \in 1..Len(rows) :
                 i < j => rows[i].OrderDate >= rows[j].OrderDate
           /\ \A r \in RowsOf(last.args.user_email) :
                 (\A i \in 1..Len(rows) : rows[i] # r) =>
                     \A i \in 1..Len(rows) : rows[i].OrderDate >= r.OrderDate
           /\ last.args.limit.kind = "int" =>
                 Len(rows) = Min(IF n >= 1 THEN n ELSE 1,
                                 Cardinality(RowsOf(last.args.user_email)))
           /\ last.args.limit.kind = "omitted" => Len(rows) <= DefaultLimit

\* the limit cut the result short
C9_Witness ==
    /\ last.tool = "sql_last_orders"
    /\ last.outcome = "returned"
    /\ last.args.limit.kind = "int"
    /\ last.args.limit.val >= 1
    /\ Len(last.result.orders) = last.args.limit.val
    /\ Cardinality(RowsOf(last.args.user_email)) > last.args.limit.val

\* C10: sql_last_orders called without a limit returns at most 3 rows, the
\* default its input description declares.
C10_DefaultLimitAsDocumented ==
    (last.tool = "sql_last_orders" /\ last.outcome = "returned"
        /\ last.args.limit.kind = "omitted") =>
        Len(last.result.orders) <= DocumentedDefaultLimit

(* ================ properties of the connection handling =============== *)

HealthCheck == "SELECT 1 AS one"

\* The last call sent its health check and the health check failed.
HealthCheckFailed ==
    /\ last.stmts # <<>>
    /\ last.stmts[1].sql = HealthCheck
    /\ ~last.stmts[1].ok

\* The clients the last call constructed after its health check: all but
\* the one setup constructs for a tool that holds none.
OpenedAfterHealthCheck ==
    last.opened - (IF last.db0 = None /\ last.stmts # <<>> THEN 1 ELSE 0)

\* A statement after the health check failed.
LaterFailure ==
    \E i \in 2..Len(last.stmts) : ~last.stmts[i].ok

\* A failed health check is answered by one new client and never surfaces by
\* itself; a failure of the new client's constructor, or of any statement
\* after the health check, reaches the caller as the call's exception.
ReconnectOnce ==
    last.tool \in DbTools =>
        /\ OpenedAfterHealthCheck = IF HealthCheckFailed /\ (Len(last.stmts) > 1
                                        \/ last.error # Some("ConnectionError"))
                                    THEN 1 ELSE 0
        /\ (HealthCheckFailed /\ OpenedAfterHealthCheck = 1 /\ ~LaterFailure)
              => last.error # Some("ConnectionError")
        /\ (HealthCheckFailed /\ OpenedAfterHealthCheck = 0)
              => (last.outcome = "raised" /\ last.error = Some("ConnectionError"))
        /\ LaterFailure
              => (last.outcome = "raised" /\ last.error = Some("ConnectionError"))
        /\ (HealthCheckFailed /\ OpenedAfterHealthCheck = 1)
              => /\ toolDb[last.tool] = Some(last.tool)
                 /\ \A i \in 2..Len(last.stmts) : last.stmts[i].client = Some(last.tool)

\* C4 (amended): when the health check fails the tool replaces its client by
\* a newly opened one, once, and goes on with its statements on the new
\* client without sending the health check again; a failure to open the new
\* client, or of any later statement, propagates to the caller.  A single
\* failed health check followed by a successful reconnect surfaces no error.
C4_ReconnectWithoutRetry ==
    /\ ReconnectOnce
    /\ last.tool \in DbTools =>
          \A i \in 2..Len(last.stmts) : last.stmts[i].sql # HealthCheck

\* the health check failed, the new client served the whole call
C4_Witness ==
    /\ last.tool = "sql_order_by_id"
    /\ HealthCheckFailed
    /\ last.outcome = "returned"
    /\ Len(last.stmts) = 3
    /\ last.result.order # None

\* C4 as claimed: after the failed health check and the reconnect, the
\* health check is retried once on the new client.
C4_RetriesHealthCheck ==
    /\ ReconnectOnce
    /\ (last.tool \in DbTools /\ HealthCheckFailed /\ OpenedAfterHealthCheck = 1)
          => /\ Len(last.stmts) >= 2
             /\ last.stmts[2].sql = HealthCheck

(* ================== properties of the search tools ==================== *)

RagTools == {"rag_doc_search", "rag_product_search"}

\* (query or "").strip() is empty
Blank(query) == \A i \in 1..Len(query) : query[i] \in Whitespace

EmptyResultOf(tool) ==
    IF tool = "rag_doc_search" THEN EmptyQuerySnippets ELSE EmptyQueryProducts

\* C5 (amended): a search tool called with an empty or whitespace-only query
\* sends nothing but the health check; it opens a client only when it holds
\* none or the health check fails; it returns the empty result with the note
\* "empty query" unless opening a client fails.
C5_BlankQueryOnlyHealthCheck ==
    (last.tool \in RagTools /\ Blank(last.args.query)) =>
        /\ Len(last.stmts) <= 1
        /\ \A i \in 1..Len(last.stmts) : last.stmts[i].sql = HealthCheck
        /\ last.opened > 0 => (last.db0 = None \/ HealthCheckFailed)
        /\ last.outcome = "returned" => last.result = EmptyResultOf(last.tool)
        /\ last.outcome = "raised" =>
              /\ last.error = Some("ConnectionError")
              /\ last.stmts = <<>> \/ HealthCheckFailed

\* a whitespace-only query, answered after the health check
C5_Witness ==
    /\ last.tool = "rag_doc_search"
    /\ last.args.query # <<>>
    /\ Blank(last.args.query)
    /\ last.outcome = "returned"
    /\ Len(last.stmts) = 1

\* C5 as claimed: no statement at all and no new connection.
C5_BlankQueryNoStatement ==
    (last.tool \in RagTools /\ Blank(last.args.query)) =>
        /\ last.stmts = <<>>
        /\ last.opened = 0
        /\ last.outcome = "returned"
        /\ last.result = EmptyResultOf(last.tool)

SimilarityTables == {"DocChunks", "Products"}

\* C6: a search tool called with an empty or whitespace-only query never
\* sends the similarity query, whatever k and price_max are, and what it
\* returns is the empty list.
C6_BlankQueryNoSimilarity ==
    (last.tool \in RagTools /\ Blank(last.args.query)) =>
        /\ \A i \in 1..Len(last.stmts) : last.stmts[i].table \notin SimilarityTables
        /\ last.outcome = "returned" => last.result = EmptyResultOf(last.tool)

\* whitespace-only query, k = None, a negative price_max
C6_Witness ==
    /\ last.tool = "rag_product_search"
    /\ last.args.query # <<>>
    /\ Blank(last.args.query)
    /\ last.args.k.kind = "null"
    /\ last.args.price_max = Some(-1)
    /\ last.outcome = "returned"

InvalidName == ~ValidConfigName(env.EMBEDDING_CONFIG_NAME)

\* C7 (amended): with a configuration name outside [A-Za-z0-9._-]+ no
\* statement that inlines the name is ever sent, so no Embedding is built
\* from it.  A search tool has sent only its health check, and a non-blank
\* query with an integer k ends in the validation error (or in the failure
\* to reconnect).  The ingestion job has already upserted the chunks when it
\* validates; it raises the validation error only if a refresh flag is set.
C7_InvalidNameNeverInlined ==
    InvalidName =>
        /\ ProductEmbedding = None
        /\ \A key \in DOMAIN DocChunks : DocChunks[key].Embedding = None
        /\ last.tool \in RagTools =>
              /\ \A i \in 1..Len(last.stmts) : last.stmts[i].sql = HealthCheck
              /\ (~Blank(last.args.query) /\ last.args.k.kind # "null") =>
                    /\ last.outcome = "raised"
                    /\ last.error \in {Some("ValueError"), Some("ConnectionError")}
                    /\ last.error = Some("ConnectionError") =>
                          (last.stmts = <<>> \/ HealthCheckFailed)
        /\ last.tool = "embed_sql" =>
              /\ \A i \in 1..Len(last.stmts) :
                    last.stmts[i].sql = "INSERT OR UPDATE DocChunks"
              /\ last.error = Some("ValueError") <=>
                    /\ env.REFRESH_DOC_CHUNK_VECTORS \/ env.REFRESH_PRODUCT_VECTORS
                    /\ last.opened = 1
                    /\ \A i \in 1..Len(last.stmts) : last.stmts[i].ok
              /\ last.outcome = "returned" =>
                    ~(env.REFRESH_DOC_CHUNK_VECTORS \/ env.REFRESH_PRODUCT_VECTORS)

\* the job wrote chunk rows and then raised the validation error
C7_Witness ==
    /\ InvalidName
    /\ last.tool = "embed_sql"
    /\ last.error = Some("ValueError")
    /\ last.stmts # <<>>
    /\ DOMAIN DocChunks # {}

\* C7 as claimed: the validation error comes before any statement; a search
\* tool has sent nothing, the job has written no DocChunks or Products row.
C7_InvalidNameBeforeAnySql ==
    (InvalidName /\ last.tool \in RagTools \cup {"embed_sql"}) =>
        /\ last.stmts = <<>>
        /\ DOMAIN DocChunks = {}

(* ================== properties of the shipping tool =================== *)

\* C8: shipping_status returns an object for every outcome of the POST: with
\* endpoint, requestId and error, and neither httpStatus nor response, when
\* the transport failed or a body declared as JSON did not parse; with
\* endpoint, requestId, httpStatus and response, and no error, when a
\* response was received, whatever its status.
C8_ShippingNeverRaises ==
    last.tool = "shipping_status" =>
        LET h == last.args.http
            failed == \/ h.kind # "response"
                      \/ (h.content_type \in {"application/json",
                                              "Application/JSON; charset=utf-8"}
                            /\ ~h.parses)
        IN /\ last.outcome = "returned"
           /\ failed => DOMAIN last.result = {"endpoint", "requestId", "error"}
           /\ ~failed =>
                 /\ DOMAIN last.result =
                        {"endpoint", "requestId", "httpStatus", "response"}
                 /\ last.result.httpStatus = h.status
           /\ last.result.endpoint # <<>>
           /\ last.result.endpoint[Len(last.result.endpoint)] # "/"
           /\ last.args.request_id \notin {None, Some("")} =>
                 last.result.requestId = last.args.request_id[1]

\* a 500 with an HTML body is a received response
C8_Witness ==
    /\ last.tool = "shipping_status"
    /\ last.args.http.kind = "response"
    /\ last.args.http.status = 500
    /\ last.args.http.content_type = "text/html"
    /\ "httpStatus" \in DOMAIN last.result

(* ===================== result count of the searches =================== *)

\* The similarity statements of the last call, in the order sent.
SimilarityStmts ==
    { i \in 1..Len(last.stmts) : last.stmts[i].table \in SimilarityTables }

\* The number after SELECT TOP in the text of a similarity statement.
RequestedTop(stmt) == stmt.text[2].inlined

TopKMaxOf(tool) == IF tool = "rag_doc_search" THEN DocTopKMax ELSE ProductTopKMax
TopKDefaultOf(tool) ==
    IF tool = "rag_doc_search" THEN DocTopKDefault ELSE ProductTopKDefault

ResultList ==
    IF last.tool = "rag_doc_search" THEN last.result.snippets
    ELSE last.result.products

\* C11: for every integer k (0, negative, above the cap) the number of
\* results a search tool requests from the store is within 1..10 for
\* rag_doc_search and 1..20 for rag_product_search, it is the default (3,
\* respectively 5) when k is omitted, and the returned list never has more
\* entries than the number requested.
C11_TopKWithinBounds ==
    last.tool \in RagTools =>
        /\ \A i \in SimilarityStmts :
              /\ RequestedTop(last.stmts[i]) \in 1..TopKMaxOf(last.tool)
              /\ last.args.k.kind = "omitted" =>
                    RequestedTop(last.stmts[i]) = TopKDefaultOf(last.tool)
              /\ last.args.k.kind = "int" =>
                    /\ last.args.k.val <= RequestedTop(last.stmts[i])
                          \/ RequestedTop(last.stmts[i]) = TopKMaxOf(last.tool)
                    /\ last.args.k.val >= RequestedTop(last.stmts[i])
                          \/ RequestedTop(last.stmts[i]) = 1
              /\ last.outcome = "returned" =>
                    Len(ResultList) <= RequestedTop(last.stmts[i])
        /\ (last.outcome = "returned" /\ SimilarityStmts = {}) => ResultList = <<>>

\* k = -1 on a store with two chunks: TOP 1 is requested, one snippet returned
C11_Witness ==
    /\ last.tool = "rag_doc_search"
    /\ last.args.k = [kind |-> "int", val |-> -1]
    /\ last.outcome = "returned"
    /\ SimilarityStmts # {}
    /\ Len(last.result.snippets) = 1
    /\ Cardinality(DOMAIN DocChunks) > 1

(* ================= statement of the product search ==================== *)

IsPlaceholder(tok) == tok = Placeholder
IsInlined(tok) == "inlined" \in DOMAIN tok

\* The positions of the '?' placeholders of a statement text, in order.
PlaceholderAt(text, j) ==
    CHOOSE i \in 1..Len(text) :
        /\ IsPlaceholder(text[i])
        /\ Cardinality({h \in 1..i : IsPlaceholder(text[h])}) = j

PlaceholderCount(text) == Len(SelectSeq(text, IsPlaceholder))

\* The values formatted into a statement text, in order.
InlinedValues(text) ==
    LET toks == SelectSeq(text, IsInlined)
    IN [i \in 1..Len(toks) |-> toks[i].inlined]

HasPricePredicate(text) ==
    \E i \in 1..Len(text) : text[i] = Lit("p.Price <=")

PriceSupplied(price_max) == price_max # None /\ price_max[1] >= 0

ProductStmts ==
    { i \in 1..Len(last.stmts) : last.stmts[i].table = "Products" }

\* C12: in rag_product_search the predicate 'p.Price <= ?' is in the
\* statement exactly when price_max is supplied and non-negative; the price
\* is a bound parameter and never part of the text (only top_k and the
\* configuration name are formatted into it); the '?' placeholders are as
\* many as the bound parameters and in the same order: the stripped query
\* where EMBEDDING(?, ..) stands, the price where the price predicate stands.
C12_PriceBoundAsParameter ==
    last.tool = "rag_product_search" =>
        \A i \in ProductStmts :
            LET text == last.stmts[i].text
                params == last.stmts[i].params
            IN /\ HasPricePredicate(text) <=> PriceSupplied(last.args.price_max)
               /\ InlinedValues(text) =
                     << TopK(last.args.k, ProductTopKDefault, ProductTopKMax),
                        env.EMBEDDING_CONFIG_NAME >>
               /\ PlaceholderCount(text) = Len(params)
               /\ \A j \in 1..Len(params) :
                     LET at == PlaceholderAt(text, j)
                     IN IF text[at - 1] = Lit("p.Price <=")
                        THEN /\ j = 2
                             /\ params[j] = last.args.price_max[1]
                        ELSE /\ j = 1
                             /\ params[j] = strip(last.args.query)

\* a price of 0 is a filter: two placeholders, two parameters
C12_Witness ==
    /\ last.tool = "rag_product_search"
    /\ last.args.price_max = Some(0)
    /\ ProductStmts # {}
    /\ \A i \in ProductStmts :
          /\ HasPricePredicate(last.stmts[i].text)
          /\ Len(last.stmts[i].params) = 2
    /\ last.outcome = "returned"

(* ==================== properties of the ingestion job ================= *)

IngestionCompleted == last.tool = "embed_sql" /\ last.outcome = "returned"

\* Every run of the job that could follow on the tables as they are, with
\* the documents and the configuration as they are.
NextRuns ==
    UNION { main(DocChunks, ProductEmbedding, docsDir, env, FALSE, failAt) :
              failAt \in 0..MaxJobStatements }

\* No two supported files of the folder share a stem.
DistinctStems ==
    \A f, g \in docsDir :
        (Lower(f.suffix) \in SupportedExts /\ Lower(g.suffix) \in SupportedExts
            /\ f.stem = g.stem) => f = g

\* C13: a run of the ingestion job that follows a completed run, on the
\* same documents and configuration, leaves the keys (DocID, ChunkIndex) of
\* DocChunks as the first run left them: no row is added and none removed,
\* no two rows share a ChunkID, and the only statement the job sends to
\* Products is the UPDATE of the embeddings, which leaves the number of
\* Products rows alone.  Where no two files share a stem the rows
\* themselves are the same.
C13_IngestionIdempotent ==
    IngestionCompleted =>
        /\ \A j \in NextRuns :
              /\ DOMAIN j.chunks = DOMAIN DocChunks
              /\ \A i \in 1..Len(j.stmts) :
                    j.stmts[i].table = "Products" =>
                        j.stmts[i].sql = "UPDATE Products SET Embedding"
              /\ (j.err = None /\ DistinctStems) =>
                    /\ j.chunks = DocChunks
                    /\ j.products = ProductEmbedding
        /\ \A a, b \in DOMAIN DocChunks :
              DocChunks[a].ChunkID = DocChunks[b].ChunkID => a = b
        /\ \A i \in 1..Len(last.stmts) :
              last.stmts[i].table = "Products" =>
                  last.stmts[i].sql = "UPDATE Products SET Embedding"

\* a completed run over a table that already held every row it wrote
C13_Witness ==
    /\ IngestionCompleted
    /\ Cardinality(DOMAIN DocChunks) >= 2
    /\ last.chunks0 = DocChunks
    /\ Len(last.stmts) >= 3

(* ========================== properties of chunking ==================== *)

ChunksMade == last.tool = "make_chunks"
Windows == last.result[1]
Start(w) == w[1]
End(w) == w[2]

\* C14: for a text of length L, a size S > 0 and any overlap, every window
\* (start, end, chunk) of make_chunks has chunk = text[start:end],
\* 0 <= start < end <= L and end - start <= S; the starts increase strictly
\* from 0; every position 0..L-1 of the text lies in a window.
C14_WindowsCoverText ==
    (ChunksMade /\ env.CHUNK_SIZE > 0) =>
        LET text == last.args.text
            L == Len(text)
        IN /\ \A i \in 1..Len(Windows) :
                 /\ Windows[i][3] = SubSeq(text, Start(Windows[i]) + 1, End(Windows[i]))
                 /\ 0 <= Start(Windows[i])
                 /\ Start(Windows[i]) < End(Windows[i])
                 /\ End(Windows[i]) <= L
                 /\ End(Windows[i]) - Start(Windows[i]) <= env.CHUNK_SIZE
           /\ \A i \in 1..(Len(Windows) - 1) :
                 Start(Windows[i]) < Start(Windows[i + 1])
           /\ Windows # <<>> => Start(Windows[1]) = 0
           /\ \A pos \in 0..(L - 1) :
                 \E i \in 1..Len(Windows) :
                     Start(Windows[i]) <= pos /\ pos < End(Windows[i])

\* a text longer than the window, cut with an overlap into several windows
C14_Witness ==
    /\ ChunksMade
    /\ env.CHUNK_SIZE = 2
    /\ env.CHUNK_OVERLAP = 1
    /\ Len(last.args.text) = MaxText
    /\ Len(Windows) > 2

Ceil(a, b) == (a + b - 1) \div b

\* C15 as claimed: for L > O and 0 <= O < S make_chunks produces
\* ceil((L - O) / (S - O)) windows, and its final window is never contained
\* in the one before it.
C15_WindowCount ==
    (ChunksMade /\ 0 <= env.CHUNK_OVERLAP /\ env.CHUNK_OVERLAP < env.CHUNK_SIZE
        /\ Len(last.args.text) > env.CHUNK_OVERLAP) =>
        /\ Len(Windows) = Ceil(Len(last.args.text) - env.CHUNK_OVERLAP,
                               env.CHUNK_SIZE - env.CHUNK_OVERLAP)
        /\ Len(Windows) > 1 =>
              End(Windows[Len(Windows)]) > End(Windows[Len(Windows) - 1])

(* ============ properties of the orchestrator and its runners ========== *)

CliStarted == cli.pc \in {"repl", "exited"}

\* C16: with OPENAI_API_KEY unset or empty, CustomerSupportAgent() raises
\* before a model client, a database connection or a tool exists, and the
\* terminal runner exits with a non-zero status without building or
\* running the agent.
C16_MissingKeyFailsFast ==
    Falsy(env.OPENAI_API_KEY) =>
        /\ last.tool = "CustomerSupportAgent" =>
              /\ last.outcome = "raised"
              /\ last.error = Some("ValueError")
              /\ last.opened = 0
              /\ last.result = Some([model |-> FALSE, tools |-> {}])
        /\ \A t \in DbTools : toolDb[t] = None
        /\ CliStarted =>
              /\ cli.pc = "exited"
              /\ cli.status \notin {None, Some(0)}
              /\ ~cli.agent
              /\ cli.calls = <<>>
              /\ cli.stdout = <<>>

\* an empty key: the runner has exited with status 1 and a direct
\* construction has raised
C16_Witness ==
    /\ env.OPENAI_API_KEY = Some(<<>>)
    /\ cli.argv.email # None
    /\ cli.status = Some(1)
    /\ last.tool = "CustomerSupportAgent"
    /\ last.outcome = "raised"

\* The messages the REPL hands to the agent for the lines it read: one for
\* each line that is neither blank nor exit/quit/q.
RECURSIVE ReplMessages(_)
ReplMessages(inputs) ==
    IF inputs = <<>> THEN <<>>
    ELSE LET ev == Head(inputs)
             msg == strip(ev.text)
         IN IF ev.kind = "line" /\ msg # <<>> /\ lower(msg) \notin ExitWords
            THEN <<msg>> \o ReplMessages(Tail(inputs))
            ELSE ReplMessages(Tail(inputs))

\* The input that ends the REPL: exit/quit/q, end of file, an interrupt.
EndsRepl(ev) ==
    ev.kind # "line" \/ lower(strip(ev.text)) \in ExitWords

\* C17 as claimed: with --message given, one agent call with the --email
\* value, the answer printed, exit status 0; with --message omitted, a
\* REPL with one agent call (same --email) per line that is neither blank
\* nor exit/quit/q, none for a blank line, ending with status 0 on
\* exit/quit/q, end of file or interrupt.  Runs in which the agent was built
\* and no call of it raised.
C17_CliProtocol ==
    (CliStarted /\ cli.agent /\ ~cli.stderr) =>
        IF cli.argv.message # None
        THEN /\ cli.pc = "exited"
             /\ cli.calls = << [user_email |-> cli.argv.email[1],
                                message |-> cli.argv.message[1]] >>
             /\ cli.stdout = << "answer" >>
             /\ cli.status = Some(0)
        ELSE /\ Len(cli.calls) = Len(ReplMessages(cli.inputs))
             /\ \A i \in 1..Len(cli.calls) :
                   cli.calls[i] = [user_email |-> cli.argv.email[1],
                                   message |-> ReplMessages(cli.inputs)[i]]
             /\ cli.pc = "exited" =>
                   /\ cli.status = Some(0)
                   /\ cli.inputs # <<>>
                   /\ EndsRepl(cli.inputs[Len(cli.inputs)])
                         \/ cli.stdout[Len(cli.stdout)] = "newline"
             /\ \A i \in 1..(Len(cli.inputs) - 1) : ~EndsRepl(cli.inputs[i])

(* ===================== properties of the UI process =================== *)

\* Every value a call of _agent() has returned to its caller.
ReturnedAgents ==
    UNION { { ui.threads[t].returned[i].agent :
                i \in { h \in 1..Len(ui.threads[t].returned) :
                           "agent" \in DOMAIN ui.threads[t].returned[h] } } :
            t \in Threads }

\* C18 as claimed: over any interleaving of calls of _agent() from request
\* threads CustomerSupportAgent is constructed at most once in the process,
\* every call returns the same instance, and a construction that raised
\* leaves _AGENT empty.
C18_AgentSingleton ==
    ui.on =>
        /\ ui.built <= 1
        /\ Cardinality(ReturnedAgents) <= 1
        /\ ui.built = 0 => ui.AGENT = None

(* =================== the connection the tools share =================== *)

\* The tools were built by CustomerSupportAgent.__init__: one of them still
\* holds the client it was given.
BuiltByOrchestrator == \E t \in DbTools : toolDb[t] = Some(AgentClient)

\* The clients the tools hold; none of them is ever closed.
HeldClients == { toolDb[t] : t \in DbTools } \ { None }

\* C19 as claimed: after any sequence of tool invocations, reconnects
\* included, the five database tools of the orchestrator hold the same
\* IRISClient and at most one connection remains unclosed.
C19_OneSharedConnection ==
    BuiltByOrchestrator =>
        /\ \A t, u \in DbTools : toolDb[t] = toolDb[u]
        /\ Cardinality(HeldClients) <= 1

(* ================== rows of DocChunks after ingestion ================= *)

\* The files of the folder the job reads.
SupportedFiles == { f \in docsDir : Lower(f.suffix) \in SupportedExts }

\* The windows of a file's current body, as the job cuts them.
WindowsOf(f) ==
    make_chunks(ReadDoc(f, env.DOC_BODY_MAX_CHARS).Body,
                env.CHUNK_SIZE, env.CHUNK_OVERLAP)

\* The keys (DocID, ChunkIndex) the job writes for a file.
KeysOf(f) == { <<f.stem, i - 1>> : i \in 1..Len(WindowsOf(f)) }

\* C20 as claimed: after a completed ingestion run the DocChunks rows of
\* every document of the folder are exactly the windows of its current
\* body, one row per chunk index 0..n-1 and no row with an index >= n, and
\* two distinct files never write to the same key.
C20_RowsAreCurrentWindows ==
    IngestionCompleted =>
        /\ \A f \in SupportedFiles :
              /\ { key \in DOMAIN DocChunks : key[1] = f.stem } = KeysOf(f)
              /\ \A i \in 1..Len(WindowsOf(f)) :
                    /\ DocChunks[<<f.stem, i - 1>>].StartPos = WindowsOf(f)[i][1]
                    /\ DocChunks[<<f.stem, i - 1>>].EndPos = WindowsOf(f)[i][2]
                    /\ DocChunks[<<f.stem, i - 1>>].ChunkText = WindowsOf(f)[i][3]
        /\ \A f, g \in SupportedFiles : f # g => KeysOf(f) \cap KeysOf(g) = {}

(* ======================= termination of chunking ====================== *)

\* C21: make_chunks returns for every text and every integer size and
\* overlap (overlap >= size, overlap < 0 and size <= 0 included).  Each
\* turn of its loop appends one window and moves the scan position up by
\* at least 1, so the turns are at most len(text); for size <= 0 the result
\* is the one window (0, len(text), text); for an empty text and size > 0
\* there is no window.
C21_ChunkingTerminates ==
    ChunksMade =>
        LET text == last.args.text
        IN /\ last.outcome = "returned"
           /\ env.CHUNK_SIZE <= 0 => Windows = << <<0, Len(text), text>> >>
           /\ env.CHUNK_SIZE > 0 =>
                 /\ Len(Windows) <= Len(text)
                 /\ \A i \in 1..(Len(Windows) - 1) :
                       Start(Windows[i + 1]) >= Start(Windows[i]) + 1
                 /\ \A i \in 1..Len(Windows) : Start(Windows[i]) < Len(text)
                 /\ text = <<>> => Windows = <<>>

\* overlap above the size: the step is 1 and every position starts a window
C21_Witness ==
    /\ ChunksMade
    /\ env.CHUNK_OVERLAP > env.CHUNK_SIZE
    /\ env.CHUNK_SIZE = 2
    /\ Len(last.args.text) = MaxText
    /\ Len(Windows) = MaxText

(* ===================== properties of the chat page ==================== *)

ChainDone == ui.chat.chain.done

\* The agent calls made for the message of the n-th submit.
CallsFor(n) ==
    { i \in 1..Len(ui.chat.calls) : ui.chat.calls[i].submit = n }

\* C22 as claimed: over any sequence of submit, sample-prompt and clear
\* events the agent is invoked at most once for each non-blank message
\* submitted (bot_respond acts only on a last entry without an answer, and
\* fills it); a blank submit leaves the history as it was and invokes
\* nothing; an email that is empty or has no '@' gets the fixed reply and
\* neither invokes nor constructs the agent.
C22_ChatChain ==
    ChainDone =>
        /\ \A n \in 1..MaxEvents : Cardinality(CallsFor(n)) <= 1
        /\ \A i \in 1..Len(ui.chat.calls) : strip(ui.chat.calls[i].message) # <<>>
        /\ ui.chat.chain.blank =>
              /\ ui.chat.history = ui.chat.chain.history0
              /\ Len(ui.chat.calls) = ui.chat.chain.calls0
        /\ (ui.chat.chain.acted /\ InvalidEmail(ui.chat.chain.email)) =>
              /\ ui.chat.history[Len(ui.chat.history)].answer = Some(EmailReply)
              /\ Len(ui.chat.calls) = ui.chat.chain.calls0
              /\ ui.built = ui.chat.chain.built0

====
